---------------------------- MODULE Spec2Model ----------------------------
(***************************************************************************)
(* Model of the NLLB translation server                                    *)
(* (src/MasterG-1-main/backend/proxy/nllb_server.py).                      *)
(*                                                                         *)
(* Texts are sequences of one-character strings.  The regular-expression   *)
(* passes of strip_markdown and split_into_units are written out as        *)
(* "match at position i" operators that follow Python's leftmost,          *)
(* greedy/lazy matching, and are applied by ReSub the way re.sub scans.    *)
(***************************************************************************)
EXTENDS Integers, Sequences, FiniteSets, TLC

(***************************************************************************)
(* Text primitives                                                         *)
(***************************************************************************)

\* Characters Python's \s and str.strip() treat as whitespace.
WS == {" ", "\t", "\n", "\r"}

\* The backtick character, which a TLA+ string cannot hold.
BackTick == "bt"

Min(S) == CHOOSE x \in S : \A y \in S : x <= y

Max(S) == CHOOSE x \in S : \A y \in S : x >= y

\* s[i], or "" (no character) outside the string.
At(s, i) == IF i >= 1 /\ i <= Len(s) THEN s[i] ELSE ""

\* Smallest j >= from with s[j] \in C, 0 if there is none.
FirstIn(s, from, C) ==
  LET S == {j \in from..Len(s) : s[j] \in C}
  IN  IF S = {} THEN 0 ELSE Min(S)

\* Smallest j >= from with s[j] = a and s[j+1] = b, 0 if there is none.
FirstPair(s, from, a, b) ==
  LET S == {j \in from..(Len(s) - 1) : s[j] = a /\ s[j + 1] = b}
  IN  IF S = {} THEN 0 ELSE Min(S)

\* Index of the last character of the maximal run of characters of C that
\* starts at from (from - 1 when s[from] is not in C).
RunEnd(s, from, C) ==
  LET S == {j \in from..Len(s) : s[j] \notin C}
  IN  IF S = {} THEN Len(s) ELSE Min(S) - 1

\* pat occurs in s at position i.
StartsAt(s, i, pat) ==
  /\ i >= 1
  /\ i + Len(pat) - 1 <= Len(s)
  /\ SubSeq(s, i, i + Len(pat) - 1) = pat

\* pat is a contiguous part of s.
Contains(s, pat) == \E i \in 1..(Len(s) + 1) : StartsAt(s, i, pat)

\* str.strip()
Strip(s) ==
  LET K == {j \in 1..Len(s) : s[j] \notin WS}
  IN  IF K = {} THEN <<>> ELSE SubSeq(s, Min(K), Max(K))

\* str.replace(old, new): every non-overlapping occurrence, left to right.
RECURSIVE ReplaceFrom(_, _, _, _)
ReplaceFrom(s, old, new, i) ==
  IF i > Len(s) THEN <<>>
  ELSE IF StartsAt(s, i, old)
       THEN new \o ReplaceFrom(s, old, new, i + Len(old))
       ELSE <<s[i]>> \o ReplaceFrom(s, old, new, i + 1)

Replace(s, old, new) == ReplaceFrom(s, old, new, 1)

\* str.split(sep) for a one-character separator: the pieces between the
\* separators, a trailing empty piece included.
RECURSIVE SplitFrom(_, _, _, _)
SplitFrom(s, sep, i, cur) ==
  IF i > Len(s) THEN <<cur>>
  ELSE IF s[i] = sep
       THEN <<cur>> \o SplitFrom(s, sep, i + 1, <<>>)
       ELSE SplitFrom(s, sep, i + 1, Append(cur, s[i]))

Split(s, sep) == SplitFrom(s, sep, 1, <<>>)

\* sep.join(parts)
RECURSIVE Join(_, _)
Join(parts, sep) ==
  IF Len(parts) = 0 THEN <<>>
  ELSE IF Len(parts) = 1 THEN parts[1]
       ELSE parts[1] \o sep \o Join(Tail(parts), sep)

\* str.splitlines(): breaks at "\n", "\r" and "\r\n"; no empty last line.
RECURSIVE SplitLinesFrom(_, _, _)
SplitLinesFrom(s, i, cur) ==
  IF i > Len(s) THEN (IF cur = <<>> THEN <<>> ELSE <<cur>>)
  ELSE IF s[i] = "\r" /\ At(s, i + 1) = "\n"
       THEN <<cur>> \o SplitLinesFrom(s, i + 2, <<>>)
       ELSE IF s[i] \in {"\n", "\r"}
            THEN <<cur>> \o SplitLinesFrom(s, i + 1, <<>>)
            ELSE SplitLinesFrom(s, i + 1, Append(cur, s[i]))

SplitLines(s) == SplitLinesFrom(s, 1, <<>>)

\* [f(x) for x in xs]-style helpers on sequences of texts.
StripAll(xs) == [k \in 1..Len(xs) |-> Strip(xs[k])]

RECURSIVE NonEmpty(_)
NonEmpty(xs) ==
  IF Len(xs) = 0 THEN <<>>
  ELSE IF Head(xs) = <<>> THEN NonEmpty(Tail(xs))
       ELSE <<Head(xs)>> \o NonEmpty(Tail(xs))

\* Decimal digits of a natural number, as str(n) gives them.
DigitChar(d) == <<"0", "1", "2", "3", "4", "5", "6", "7", "8", "9">>[d + 1]

RECURSIVE Digits(_)
Digits(n) ==
  IF n < 10 THEN <<DigitChar(n)>>
  ELSE Digits(n \div 10) \o <<DigitChar(n % 10)>>

(***************************************************************************)
(* re.sub                                                                  *)
(*                                                                         *)
(* A match is a record [e, gs, ge]: the match starts at the position       *)
(* asked, e is the position after its last character (0: no match here),   *)
(* and gs..ge is the part of the text the replacement keeps (group 1, or   *)
(* group 0, or nothing when gs > ge).                                      *)
(***************************************************************************)
NoMatch == [e |-> 0, gs |-> 1, ge |-> 0]

Match(e, gs, ge) == [e |-> e, gs |-> gs, ge |-> ge]

\* re.sub(pattern, r'\1', s): scan left to right, at each position take the
\* match if there is one and continue after it, else keep the character.
RECURSIVE ReSubFrom(_, _, _)
ReSubFrom(s, m, i) ==
  IF i > Len(s) THEN <<>>
  ELSE IF m[i].e > 0
       THEN SubSeq(s, m[i].gs, m[i].ge) \o ReSubFrom(s, m, m[i].e)
       ELSE <<s[i]>> \o ReSubFrom(s, m, i + 1)

ReSub(s, m) == ReSubFrom(s, m, 1)

(***************************************************************************)
(* strip_markdown: the math extraction passes                              *)
(***************************************************************************)

\* r'\$\$[\s\S]*?\$\$' at i: "$$", then lazily up to the next "$$".
MatchDisplayMath(s, i) ==
  IF At(s, i) = "$" /\ At(s, i + 1) = "$"
  THEN LET j == FirstPair(s, i + 2, "$", "$")
       IN  IF j = 0 THEN NoMatch ELSE Match(j + 2, i, j + 1)
  ELSE NoMatch

\* r'\\\[([\s\S]*?)\\\]' at i: "\[", then lazily up to the next "\]".
MatchLatexDisplayMath(s, i) ==
  IF At(s, i) = "\\" /\ At(s, i + 1) = "["
  THEN LET j == FirstPair(s, i + 2, "\\", "]")
       IN  IF j = 0 THEN NoMatch ELSE Match(j + 2, i + 2, j - 1)
  ELSE NoMatch

\* r'(?<!\$)\$(?!\$)([^$\n]+?)\$(?!\$)' at i: a "$" not preceded by "$",
\* one or more characters other than "$" and newline, and a "$" not followed
\* by "$".  The group cannot hold a "$", so the closing "$" is the first
\* "$" or newline after i.
MatchInlineMath(s, i) ==
  IF At(s, i) = "$" /\ At(s, i - 1) # "$"
  THEN LET j == FirstIn(s, i + 1, {"$", "\n"})
       IN  IF j >= i + 2 /\ s[j] = "$" /\ At(s, j + 1) # "$"
           THEN Match(j + 1, i, j)
           ELSE NoMatch
  ELSE NoMatch

\* r'\\\(([^)]+?)\\\)' at i: "\(", one or more characters other than ")",
\* lazily, then "\)".
MatchLatexInlineMath(s, i) ==
  IF At(s, i) = "\\" /\ At(s, i + 1) = "("
  THEN LET j == FirstPair(s, i + 3, "\\", ")")
           c == FirstIn(s, i + 2, {")"})
       IN  IF j # 0 /\ c = j + 1 THEN Match(j + 2, i + 2, j - 1) ELSE NoMatch
  ELSE NoMatch

PrefixDisplay ==
  <<"_", "_", "L", "A", "T", "E", "X", "_",
    "D", "I", "S", "P", "L", "A", "Y", "_">>

PrefixInline ==
  <<"_", "_", "L", "A", "T", "E", "X", "_",
    "I", "N", "L", "I", "N", "E", "_">>

\* f"__LATEX_DISPLAY_{placeholder_counter}__" / f"__LATEX_INLINE_{...}__"
Placeholder(prefix, counter) == prefix \o Digits(counter) \o <<"_", "_">>

\* re.sub(pattern, replace_..., text) of one extraction pass: every match is
\* replaced by the next placeholder, and math_placeholders[placeholder] is
\* set to pre + kept part + post.  The state is [text, phs, counter] where
\* phs is math_placeholders in insertion order.  From position i the scan
\* keeps the characters before the leftmost match and continues after it.
RECURSIVE ExtractFrom(_, _, _, _, _, _, _)
ExtractFrom(s, m, prefix, pre, post, counter, i) ==
  LET S == {j \in i..Len(s) : m[j].e > 0}
  IN  IF S = {}
      THEN [text |-> SubSeq(s, i, Len(s)), phs |-> <<>>, counter |-> counter]
      ELSE LET j    == Min(S)
               key  == Placeholder(prefix, counter)
               rest == ExtractFrom(s, m, prefix, pre, post, counter + 1, m[j].e)
           IN  [text    |-> SubSeq(s, i, j - 1) \o key \o rest.text,
                phs     |-> <<[key   |-> key,
                               value |-> pre \o SubSeq(s, m[j].gs, m[j].ge) \o post,
                               pass  |-> prefix]>> \o rest.phs,
                counter |-> rest.counter]

\* A variant of ExtractPass where each pass numbers its placeholders from 0.
ExtractPassCountingFromZero(st, m, prefix, pre, post) ==
  LET r == ExtractFrom(st.text, m, prefix, pre, post, 0, 1)
  IN  [text |-> r.text, phs |-> st.phs \o r.phs, counter |-> st.counter + r.counter]

ExtractPass(st, m, prefix, pre, post) ==
  LET r == ExtractFrom(st.text, m, prefix, pre, post, st.counter, 1)
  IN  [text |-> r.text, phs |-> st.phs \o r.phs, counter |-> r.counter]

replace_display_math(st) ==
  ExtractPass(st, [i \in 1..Len(st.text) |-> MatchDisplayMath(st.text, i)],
              PrefixDisplay, <<>>, <<>>)

replace_latex_display_math(st) ==
  ExtractPass(st, [i \in 1..Len(st.text) |-> MatchLatexDisplayMath(st.text, i)],
              PrefixDisplay, <<"$", "$">>, <<"$", "$">>)

replace_inline_math(st) ==
  ExtractPass(st, [i \in 1..Len(st.text) |-> MatchInlineMath(st.text, i)],
              PrefixInline, <<>>, <<>>)

replace_latex_inline_math(st) ==
  ExtractPass(st, [i \in 1..Len(st.text) |-> MatchLatexInlineMath(st.text, i)],
              PrefixInline, <<"$">>, <<"$">>)

\* The four extraction passes in the order of the code.
ExtractMath(text) ==
  replace_latex_inline_math(
    replace_inline_math(
      replace_latex_display_math(
        replace_display_math([text |-> text, phs |-> <<>>, counter |-> 0]))))

(***************************************************************************)
(* strip_markdown: the markdown stripping passes                           *)
(***************************************************************************)

\* "^" under re.MULTILINE: the start of the text or just after a newline.
LineStart(s, i) == i = 1 \/ At(s, i - 1) = "\n"

\* r'^#{1,6}\s+' (MULTILINE) at i: one to six "#" and then whitespace, all
\* of it; a run of seven or more "#" cannot be followed by whitespace.
MatchHeader(s, i) ==
  IF LineStart(s, i) /\ At(s, i) = "#"
  THEN LET h == RunEnd(s, i, {"#"})
           w == RunEnd(s, h + 1, WS)
       IN  IF h - i + 1 <= 6 /\ w > h THEN Match(w + 1, 1, 0) ELSE NoMatch
  ELSE NoMatch

\* r'<d><d>([^<d>]+)<d><d>' at i for a delimiter character d ('**', '__'):
\* the greedy group runs to the first d after it, which must be doubled.
MatchDouble(s, i, d) ==
  IF At(s, i) = d /\ At(s, i + 1) = d
  THEN LET j == FirstIn(s, i + 2, {d})
       IN  IF j >= i + 3 /\ At(s, j + 1) = d
           THEN Match(j + 2, i + 2, j - 1)
           ELSE NoMatch
  ELSE NoMatch

\* r'<d>([^<d>]+)<d>' at i for a delimiter character d ('*', backtick).
MatchSingle(s, i, d) ==
  IF At(s, i) = d
  THEN LET j == FirstIn(s, i + 1, {d})
       IN  IF j >= i + 2 THEN Match(j + 1, i + 1, j - 1) ELSE NoMatch
  ELSE NoMatch

\* The text of the lookbehind of the italic-underscore pass.
LatexGuard == <<"_", "_", "L", "A", "T", "E", "X", "_">>

\* r'(?<!__LATEX_)_([^_\n]+?)_(?!__)' at i: a "_" that does not directly
\* follow "__LATEX_", one or more characters other than "_" and newline,
\* and a "_" that is not followed by "__".
MatchItalicUnderscore(s, i) ==
  IF At(s, i) = "_" /\ ~StartsAt(s, i - Len(LatexGuard), LatexGuard)
  THEN LET j == FirstIn(s, i + 1, {"_", "\n"})
       IN  IF /\ j >= i + 2
              /\ s[j] = "_"
              /\ ~(At(s, j + 1) = "_" /\ At(s, j + 2) = "_")
           THEN Match(j + 1, i + 1, j - 1)
           ELSE NoMatch
  ELSE NoMatch

\* r'^<c><c><c>+\s*$' (MULTILINE) at i for c in '-', '=': a line start,
\* three or more c, whitespace, and "$": the end of the text or a position
\* before a newline.  The greedy \s* gives characters back down to the last
\* newline of the whitespace run when the run does not end the text.
MatchRule(s, i, c) ==
  IF LineStart(s, i) /\ At(s, i) = c
  THEN LET d  == RunEnd(s, i, {c})
           w  == RunEnd(s, d + 1, WS)
           nl == {j \in (d + 1)..w : s[j] = "\n"}
       IN  IF d - i + 1 < 3 THEN NoMatch
           ELSE IF w = Len(s) THEN Match(Len(s) + 1, 1, 0)
           ELSE IF nl # {} THEN Match(Max(nl), 1, 0)
           ELSE NoMatch
  ELSE NoMatch

\* r'<3 backticks>[^\n]*\n(.*?)<3 backticks>' (DOTALL) at i: the opening
\* fence, the rest of that line, and lazily everything up to the next fence.
Fence == <<BackTick, BackTick, BackTick>>

MatchCodeBlock(s, i) ==
  IF StartsAt(s, i, Fence)
  THEN LET n == FirstIn(s, i + 3, {"\n"})
           J == IF n = 0 THEN {}
                ELSE {j \in (n + 1)..Len(s) : StartsAt(s, j, Fence)}
       IN  IF J = {} THEN NoMatch ELSE Match(Min(J) + 3, n + 1, Min(J) - 1)
  ELSE NoMatch

\* r'\[([^\]]+)\]\([^\)]+\)' at i: "[", text without "]", "](", text
\* without ")", and ")".
MatchLink(s, i) ==
  IF At(s, i) = "["
  THEN LET j == FirstIn(s, i + 1, {"]"})
           k == IF j = 0 THEN 0 ELSE FirstIn(s, j + 2, {")"})
       IN  IF j >= i + 2 /\ At(s, j + 1) = "(" /\ k >= j + 3
           THEN Match(k + 1, i + 1, j - 1)
           ELSE NoMatch
  ELSE NoMatch

\* r'\n{3,}' at i, replaced by two newlines: the match keeps its first two.
MatchNewlines(s, i) ==
  IF At(s, i) = "\n" /\ At(s, i + 1) = "\n" /\ At(s, i + 2) = "\n"
  THEN Match(RunEnd(s, i, {"\n"}) + 1, i, i + 1)
  ELSE NoMatch

\* One re.sub pass each, lines 152-168.
StripHeaders(t) == ReSub(t, [i \in 1..Len(t) |-> MatchHeader(t, i)])

StripBoldStars(t) == ReSub(t, [i \in 1..Len(t) |-> MatchDouble(t, i, "*")])

StripItalicStars(t) == ReSub(t, [i \in 1..Len(t) |-> MatchSingle(t, i, "*")])

StripBoldUnderscores(t) == ReSub(t, [i \in 1..Len(t) |-> MatchDouble(t, i, "_")])

StripItalicUnderscores(t) ==
  ReSub(t, [i \in 1..Len(t) |-> MatchItalicUnderscore(t, i)])

StripDashRules(t) == ReSub(t, [i \in 1..Len(t) |-> MatchRule(t, i, "-")])

StripEqualRules(t) == ReSub(t, [i \in 1..Len(t) |-> MatchRule(t, i, "=")])

StripCodeBlocks(t) == ReSub(t, [i \in 1..Len(t) |-> MatchCodeBlock(t, i)])

StripCodeSpans(t) == ReSub(t, [i \in 1..Len(t) |-> MatchSingle(t, i, BackTick)])

StripLinks(t) == ReSub(t, [i \in 1..Len(t) |-> MatchLink(t, i)])

CollapseNewlines(t) == ReSub(t, [i \in 1..Len(t) |-> MatchNewlines(t, i)])

\* Lines 170-171: every line stripped.
StripLines(t) == Join(StripAll(Split(t, "\n")), <<"\n">>)

\* Lines 152-171: the substitutions in the order of the code, then the
\* per-line strip.
StripMarkup(text) ==
  StripLines(CollapseNewlines(StripLinks(StripCodeSpans(StripCodeBlocks(
    StripEqualRules(StripDashRules(StripItalicUnderscores(
      StripBoldUnderscores(StripItalicStars(StripBoldStars(
        StripHeaders(text))))))))))))

\* Lines 174-175: text.replace(placeholder, math_formula) for every entry of
\* math_placeholders, in insertion order.
RECURSIVE RestoreMath(_, _)
RestoreMath(text, phs) ==
  IF Len(phs) = 0 THEN text
  ELSE RestoreMath(Replace(text, Head(phs).key, Head(phs).value), Tail(phs))

\* strip_markdown with its placeholder map: [text, phs, counter].
StripMarkdownState(text) ==
  LET ex == ExtractMath(text)
  IN  [text    |-> Strip(RestoreMath(StripMarkup(ex.text), ex.phs)),
       phs     |-> ex.phs,
       counter |-> ex.counter]

strip_markdown(text) == StripMarkdownState(text).text

(***************************************************************************)
(* split_into_units                                                        *)
(***************************************************************************)

\* re.split(r'(?<=[.!?])\s+', text): the pieces between the whitespace runs
\* that directly follow ".", "!" or "?".
RECURSIVE SentenceSplitFrom(_, _, _)
SentenceSplitFrom(s, i, cur) ==
  IF i > Len(s) THEN <<cur>>
  ELSE IF s[i] \in WS /\ At(s, i - 1) \in {".", "!", "?"}
       THEN <<cur>> \o SentenceSplitFrom(s, RunEnd(s, i, WS) + 1, <<>>)
       ELSE SentenceSplitFrom(s, i + 1, Append(cur, s[i]))

\* A variant of split_into_units whose line path keeps the blank lines.
split_into_units_keeping_blank_lines(text) ==
  LET units   == StripAll(SplitLines(text))
      cleaned == NonEmpty(StripAll(SentenceSplitFrom(text, 1, <<>>)))
  IN  IF "\n" \in {text[i] : i \in 1..Len(text)} /\ units # <<>>
      THEN units
      ELSE IF cleaned # <<>> THEN cleaned ELSE <<text>>

\* Lines 359-360: the line path.
LinePath(text) == NonEmpty(StripAll(SplitLines(text)))

\* Lines 365-370: the sentence path.
SentencePath(text) == NonEmpty(StripAll(SentenceSplitFrom(text, 1, <<>>)))

split_into_units(text) ==
  LET units   == NonEmpty(StripAll(SplitLines(text)))
      cleaned == NonEmpty(StripAll(SentenceSplitFrom(text, 1, <<>>)))
  IN  IF "\n" \in {text[i] : i \in 1..Len(text)} /\ units # <<>>
      THEN units
      ELSE IF cleaned # <<>> THEN cleaned ELSE <<text>>

(***************************************************************************)
(* Bounds and input domains                                                *)
(***************************************************************************)

\* Request lines one run of the server reads before end of input.
MaxRequests == 2

\* Lines (units) of the longest request text.
MaxUnits == 3

\* Length of the longest text handed to strip_markdown on its own.
MaxTextLen == 3

\* Pieces of a text with several math spans.
MaxSpans == 3

\* multiprocessing.cpu_count() of the hosts considered.
CpuCounts == {2, 4, 8}

\* The device load_model picks: "cpu", or an accelerator.
Devices == {"cpu", "cuda"}

\* An optional value: <<>> is None, <<v>> is the value v.
None == <<>>

Some(v) == <<v>>

Letters == <<"a", "b", "c", "d", "e", "f">>

\* The text of k lines "a\nb\n...": k one-letter units.
RECURSIVE LinesText(_)
LinesText(k) ==
  IF k = 1 THEN <<Letters[1]>>
  ELSE LinesText(k - 1) \o <<"\n", Letters[k]>>

\* The "text" values of the requests: nothing, blank, markup only, a math
\* span, and one to MaxUnits lines.
ReqTexts ==
  {<<>>, <<" ">>, <<"-", "-", "-">>, <<"$", "x", "$">>}
    \cup {LinesText(k) : k \in 1..MaxUnits}

\* Line 811: the src_lang of a request that names none; also the src_lang
\* load_model gives the tokenizer (lines 224, 235, 245, 250-251).
DefaultSrcLang == "eng_Latn"

\* The "src_lang" values of the requests.
SrcLangs == {"eng_Latn", "hin_Deva"}

\* The "batch_size" values of the requests.
\* Line 812: the tgt_lang of a request that names none.
DefaultTgtLang == "hin_Deva"

\* A language tag of the vocabulary and one no vocabulary has.
TgtLangs == {"hin_Deva", "zzz_Zzzz"}

\* tokenizer.get_vocab() of an NLLB-200 directory, cut down to the language
\* tags the requests name, each with a token id.
NllbVocab == [t \in {"eng_Latn", "hin_Deva"} |-> IF t = "eng_Latn" THEN 1 ELSE 2]

\* The vocabularies a model directory can come with: both tags, the
\* default source tag only, neither.
Vocabularies ==
  {NllbVocab, [t \in {"eng_Latn"} |-> 1], [t \in {"fra_Latn"} |-> 3]}

ReqBatchSizes == {None, Some(-1), Some(0), Some(1), Some(2)}

\* The lines the server can read.
\* A "badsize" line is a request whose batch_size int() rejects (line 817).
\* Every request of Lines leaves src_lang and tgt_lang at their defaults.
Lines ==
  [kind : {"eof", "blank", "badjson", "nonobject"},
   text : {None}, src_lang : {DefaultSrcLang}, tgt_lang : {DefaultTgtLang},
   stream : {FALSE},
   batch_size : {None}]
    \cup
  [kind : {"badsize"},
   text : {Some(LinesText(1))}, src_lang : {DefaultSrcLang},
   tgt_lang : {DefaultTgtLang}, stream : BOOLEAN,
   batch_size : {None}]
    \cup
  [kind : {"request"},
   text : {None} \cup {Some(t) : t \in ReqTexts},
   src_lang : {DefaultSrcLang},
   tgt_lang : {DefaultTgtLang},
   stream : BOOLEAN,
   batch_size : ReqBatchSizes]

\* The lines of the runs that vary the source language: end of input, and
\* requests of one or MaxUnits units in one or several batches.
LangLines ==
  [kind : {"eof"},
   text : {None}, src_lang : {DefaultSrcLang}, tgt_lang : {DefaultTgtLang},
   stream : {FALSE},
   batch_size : {None}]
    \cup
  [kind : {"request"},
   text : {Some(LinesText(1)), Some(LinesText(MaxUnits))},
   src_lang : SrcLangs,
   tgt_lang : {DefaultTgtLang},
   stream : BOOLEAN,
   batch_size : {None, Some(1)}]

\* The lines of the runs that vary the target language: end of input, and
\* requests of MaxUnits units in one or several batches.
TargetLines ==
  [kind : {"eof"},
   text : {None}, src_lang : {DefaultSrcLang}, tgt_lang : {DefaultTgtLang},
   stream : {FALSE}, batch_size : {None}]
    \cup
  [kind : {"request"},
   text : {Some(LinesText(MaxUnits))},
   src_lang : {DefaultSrcLang},
   tgt_lang : TgtLangs,
   stream : BOOLEAN,
   batch_size : {None, Some(2)}]

\* Processor counts on both sides of the two clamps of lines 393 and 614.
MachineCpuCounts == {1, 4, 14, 16, 24}

\* The lines of the runs that vary the machine: end of input, and requests
\* of MaxUnits units with and without a batch size of their own.
SizeLines ==
  [kind : {"eof"},
   text : {None}, src_lang : {DefaultSrcLang}, tgt_lang : {DefaultTgtLang},
   stream : {FALSE}, batch_size : {None}]
    \cup
  [kind : {"request"},
   text : {Some(LinesText(MaxUnits))},
   src_lang : {DefaultSrcLang},
   tgt_lang : {DefaultTgtLang},
   stream : BOOLEAN,
   batch_size : {None, Some(1)}]

\* len(unit) on both sides of the thresholds of lines 449-453.
UnitLengths == {1, 199, 200, 799, 800, 4000}

RECURSIVE BatchesOfLengths(_)
BatchesOfLengths(n) ==
  IF n = 0 THEN {<<>>}
  ELSE LET B == BatchesOfLengths(n - 1)
       IN  B \cup {Append(b, l) : b \in {c \in B : Len(c) = n - 1}, l \in UnitLengths}

NoLine ==
  [kind |-> "none", text |-> None, src_lang |-> DefaultSrcLang,
   tgt_lang |-> DefaultTgtLang, stream |-> FALSE, batch_size |-> None]

\* The pieces of the texts with several math spans: a span of each of the
\* four notations of lines 120, 132, 136 and 148, and plain text.
MathPieces ==
  {<<"$", "$", "a", "$", "$">>, <<"\\", "[", "a", "\\", "]">>,
   <<"$", "a", "$">>, <<"\\", "(", "a", "\\", ")">>, <<" ", "a">>}

\* Texts of up to n pieces.
RECURSIVE MathTexts(_)
MathTexts(n) ==
  IF n = 0 THEN {<<>>}
  ELSE MathTexts(n - 1) \cup {t \o p : t \in MathTexts(n - 1), p \in MathPieces}

\* The characters of the texts strip_markdown is applied to on its own.
Alphabet == {"a", "$", "_", "\n", "\r", " ", "."}

RECURSIVE TextsUpTo(_)
TextsUpTo(n) ==
  IF n = 0 THEN {<<>>}
  ELSE LET T == TextsUpTo(n - 1)
       IN  T \cup {Append(t, c) : t \in {u \in T : Len(u) = n - 1}, c \in Alphabet}

(***************************************************************************)
(* The translation engine (tokenizer + model), an external collaborator    *)
(*                                                                         *)
(* One call of the engine on a batch either raises or returns one output   *)
(* per unit; after a raise every unit is retried alone, and each retry     *)
(* either raises or returns one output.  An output is a true translation   *)
(* ("ok"), whitespace only ("blank") or the empty string ("empty").        *)
(***************************************************************************)
OutKinds == {"ok", "blank", "empty"}

RetryKinds == {"ok", "blank", "empty", "raise"}

Behaviours(n) ==
  [raises : {FALSE}, outs : [1..n -> OutKinds], retry : {[i \in 1..n |-> "none"]}]
    \cup
  [raises : {TRUE}, outs : {[i \in 1..n |-> "none"]}, retry : [1..n -> RetryKinds]]

\* What tokenizer.batch_decode returns for unit u: the engine's translation
\* of u comes padded with whitespace.
EngineDecode(kind, u) ==
  IF kind = "ok" THEN <<" ", "T">> \o u \o <<" ">>
  ELSE IF kind = "blank" THEN <<" ">>
  ELSE <<>>

\* The true translation of u as process_batch records it.
Translation(u) == Strip(EngineDecode("ok", u))

(***************************************************************************)
(* Responses                                                               *)
(***************************************************************************)
\* A response is the set of keys of its JSON object and each key's value; a
\* key that is absent from the object has a placeholder as its value.
Response(keys, success, type, index, total, translated, error) ==
  [keys |-> keys, success |-> success, type |-> type, index |-> index,
   total |-> total, translated |-> translated, error |-> error]

\* {"success": True, "translated": ...}
Success(translated) ==
  Response({"success", "translated"}, TRUE, "none", -1, -1, translated, "")

\* A failure answer that carries no message.
FailureWithoutError(error) ==
  Response({"success"}, FALSE, "none", -1, -1, <<>>, "")

\* {"success": False, "error": ...}
Failure(error) ==
  Response({"success", "error"}, FALSE, "none", -1, -1, <<>>, error)

\* {"success": True, "type": "chunk", "index": ..., "total": ..., ...}
Chunk(index, total, translated) ==
  Response({"success", "type", "index", "total", "translated"},
           TRUE, "chunk", index, total, translated, "")

\* {"success": True, "type": "complete", "total": ..., "translated": ...}
Complete(total, translated) ==
  Response({"success", "type", "total", "translated"},
           TRUE, "complete", -1, total, translated, "")

\* {"success": False, "type": "error", "error": ...}
ErrorEvent(error) ==
  Response({"success", "type", "error"}, FALSE, "error", -1, -1, <<>>, error)

NoResult == Response({}, FALSE, "unset", -1, -1, <<>>, "")

(***************************************************************************)
(* translate and translate_stream: the pure parts                          *)
(***************************************************************************)

\* Python's a // b for b # 0 (floor division, also for a negative divisor).
FloorDiv(a, b) == IF b > 0 THEN a \div b ELSE (0 - a) \div (0 - b)

\* xs[a:b] for 0 <= a.
Slice(xs, a, b) ==
  IF b <= a THEN <<>>
  ELSE SubSeq(xs, a + 1, IF b < Len(xs) THEN b ELSE Len(xs))

RECURSIVE Flatten(_)
Flatten(xss) ==
  IF Len(xss) = 0 THEN <<>> ELSE Head(xss) \o Flatten(Tail(xss))

\* A variant of EffectiveBatchSize without the upper clamp of the cpu size.
EffectiveBatchSizeUnclamped(requested, device, cpus) ==
  IF requested # None THEN requested[1]
  ELSE IF device = "cpu"
       THEN Max({6, cpus \div 2})
       ELSE 12

\* Lines 389-397 and 610-616: the batch size in use.
EffectiveBatchSize(requested, device, cpus) ==
  IF requested # None THEN requested[1]
  ELSE IF device = "cpu"
       THEN Min({10, Max({6, cpus \div 2})})
       ELSE 12

\* A variant of UnitsOf without the filter of lines 409 and 622.
UnitsOfUnfiltered(text) == split_into_units(strip_markdown(text))

\* Lines 403-412 and 621-622: the units of a text, blank ones filtered out.
UnitsOf(text) == NonEmpty(StripAll(split_into_units(strip_markdown(text))))

\* Line 428: the id used when the vocabulary has neither tag.
FallbackLangId == 256068

\* A variant of TargetLangId that goes to the fixed id as soon as tgt_lang
\* is unknown.
TargetLangIdWithoutEnglish(vocabulary, tgt_lang) ==
  IF tgt_lang \in DOMAIN vocabulary THEN vocabulary[tgt_lang]
  ELSE FallbackLangId

\* Lines 420-428 and 644-650: tgt_lang_id.
TargetLangId(vocabulary, tgt_lang) ==
  IF tgt_lang \in DOMAIN vocabulary THEN vocabulary[tgt_lang]
  ELSE IF "eng_Latn" \in DOMAIN vocabulary THEN vocabulary["eng_Latn"]
  ELSE FallbackLangId

\* Lines 443-453, 502-503, 663-665 and 722-723: adaptive_max_length for a
\* text of the given length.
AdaptiveMaxLength(length) ==
  LET estimated_tokens == length \div 4
  IN  IF estimated_tokens < 50 THEN 256
      ELSE IF estimated_tokens < 200 THEN 512
      ELSE 1024

\* A variant of BatchMaxLength that goes by the first unit of the batch.
BatchMaxLengthOfFirstUnit(lengths) == AdaptiveMaxLength(lengths[1])

\* Lines 443-444 and 663-664: max_batch_length = max(len(text) for text in
\* batch) decides the batch's adaptive_max_length.
BatchMaxLength(lengths) ==
  AdaptiveMaxLength(Max({lengths[i] : i \in 1..Len(lengths)}))

\* The arguments of a tokenizer call and the model.generate call after it;
\* "unset" is an argument the call does not pass.
Generate(max_length, num_beams, repetition_penalty, length_penalty, do_sample) ==
  [encode_max_length |-> max_length, max_length |-> max_length,
   num_beams |-> num_beams, repetition_penalty |-> repetition_penalty,
   length_penalty |-> length_penalty, do_sample |-> do_sample]

\* Lines 456-481: the batched call of process_batch.
process_batch_generate(device, lengths) ==
  Generate(BatchMaxLength(lengths),
           IF device = "cpu" THEN 1 ELSE 2,
           IF device = "cpu" THEN "1.05" ELSE "1.1",
           IF device = "cpu" THEN "0.7" ELSE "0.8",
           "False")

\* Lines 501-516: the single-unit retry of process_batch.
process_batch_retry_generate(device, length) ==
  Generate(AdaptiveMaxLength(length),
           IF device = "cpu" THEN 1 ELSE 2,
           "unset", "unset", "unset")

\* Lines 652-656 and 667-690: the batched call of translate_stream.
stream_generate(device, lengths) ==
  Generate(BatchMaxLength(lengths),
           IF device = "cpu" THEN 1 ELSE 2,
           IF device = "cpu" THEN "1.05" ELSE "1.1",
           IF device = "cpu" THEN "0.7" ELSE "0.8",
           "False")

\* Lines 721-737: the single-unit retry of translate_stream.
stream_retry_generate(device, length) ==
  Generate(AdaptiveMaxLength(length),
           IF device = "cpu" THEN 1 ELSE 2,
           "unset", "unset", "unset")

\* Line 433.
TotalBatches(n, bs) == FloorDiv(n + bs - 1, bs)

\* Line 434.
UseParallelBatches(device, total, cpus) ==
  device = "cpu" /\ total > 1 /\ cpus >= 4

\* A variant of MaxWorkers with one worker per processor.
MaxWorkersPerProcessor(cpus) == cpus

\* Line 533.
MaxWorkers(cpus) == Min({4, cpus \div 2})

\* range(0, n, bs) as the sequence of its values (bs # 0): empty for a
\* negative step.
BatchStarts(n, bs) ==
  IF bs < 0 THEN <<>>
  ELSE [k \in 1..((n + bs - 1) \div bs) |-> (k - 1) * bs]

\* batch = units[batch_idx:batch_idx + batch_size]
BatchAt(us, batch_idx, bs) == Slice(us, batch_idx, batch_idx + bs)

\* Lines 487-493: what the batched path records for one decoded output.
BatchedEntry(translation, original) ==
  IF translation # <<>> /\ Strip(translation) # <<>>
  THEN Strip(translation)
  ELSE original

\* Lines 518-525: what the single-unit retry records, given the list
\* batch_decode returned, or that the retry raised.
RetryEntry(raised, translation, sentence) ==
  IF raised THEN sentence
  ELSE IF Len(translation) > 0 THEN Strip(translation[1])
  ELSE sentence

\* A variant of BatchTranslations that leaves out the outputs it cannot
\* use instead of substituting the original text.
BatchTranslationsDroppingVoid(batch, beh) ==
  IF ~beh.raises
  THEN NonEmpty([i \in 1..Len(batch) |-> Strip(EngineDecode(beh.outs[i], batch[i]))])
  ELSE [i \in 1..Len(batch) |->
          RetryEntry(beh.retry[i] = "raise",
                     <<EngineDecode(beh.retry[i], batch[i])>>, batch[i])]

\* A variant of BatchTranslations whose retry loop ends at the first retry
\* that raises, the units after it keeping their original text.
BatchTranslationsAbortingRetries(batch, beh) ==
  IF ~beh.raises
  THEN [i \in 1..Len(batch) |->
          BatchedEntry(EngineDecode(beh.outs[i], batch[i]), batch[i])]
  ELSE [i \in 1..Len(batch) |->
          IF \E j \in 1..(i - 1) : beh.retry[j] = "raise"
          THEN batch[i]
          ELSE RetryEntry(beh.retry[i] = "raise",
                          <<EngineDecode(beh.retry[i], batch[i])>>, batch[i])]

\* batch_translations of process_batch under the engine behaviour beh.
BatchTranslations(batch, beh) ==
  IF ~beh.raises
  THEN [i \in 1..Len(batch) |->
          BatchedEntry(EngineDecode(beh.outs[i], batch[i]), batch[i])]
  ELSE [i \in 1..Len(batch) |->
          RetryEntry(beh.retry[i] = "raise",
                     <<EngineDecode(beh.retry[i], batch[i])>>, batch[i])]

\* A variant of process_batch that returns the batch's number counted from
\* one (as the sequential loop's batch_num, line 578) instead of its index.
process_batch_numbered_from_one(batch, batch_idx, beh) ==
  [raised |-> FALSE, idx |-> batch_idx + 1,
   translations |-> BatchTranslations(batch, beh)]

\* Lines 437-527: process_batch returns (batch_idx, batch_translations); it
\* catches every exception of the engine, so it never raises.
process_batch(batch, batch_idx, beh) ==
  [raised |-> FALSE, idx |-> batch_idx,
   translations |-> BatchTranslations(batch, beh)]

\* Line 552: the bounds check of the collector.
InRange(results, idx) == 0 <= idx /\ idx < Len(results)

\* A variant of StoreResult that fills the slots in the order the results
\* arrive instead of by batch index.
StoreResultInArrivalOrder(results, idx, translations) ==
  LET free == {j \in 1..Len(results) : results[j] = None}
  IN  IF free = {} THEN results
      ELSE [results EXCEPT ![Min(free)] = Some(translations)]

\* Lines 552-557: the collector stores a result in its slot, or skips it
\* when the index is out of range.
StoreResult(results, idx, translations) ==
  IF InRange(results, idx)
  THEN [results EXCEPT ![idx + 1] = Some(translations)]
  ELSE results

\* Lines 570-573: the slots in order, the empty ones skipped.
RECURSIVE CombineResults(_)
CombineResults(results) ==
  IF Len(results) = 0 THEN <<>>
  ELSE IF Head(results) # None /\ Head(results)[1] # <<>>
       THEN Head(results)[1] \o CombineResults(Tail(results))
       ELSE CombineResults(Tail(results))

\* A variant of TranslateResult that fails the request as soon as one
\* sentence has no translation.
TranslateResultAllOrNothing(sentences) ==
  IF sentences = <<>> \/ \E i \in 1..Len(sentences) : sentences[i] = <<>>
  THEN Failure("All translation sentences failed")
  ELSE Success(Join(sentences, <<" ">>))

\* Lines 587-593: the value translate returns.
TranslateResult(sentences) ==
  IF sentences = <<>> THEN Failure("All translation sentences failed")
  ELSE Success(Join(sentences, <<" ">>))

\* A variant of StreamBatchedEntry that keeps the output's padding.
StreamBatchedEntryUnstripped(translation, original) ==
  IF translation # <<>> /\ Strip(translation) # <<>>
  THEN translation
  ELSE original

\* Line 698: the batched path of translate_stream.
StreamBatchedEntry(translation, original) ==
  IF translation # <<>> /\ Strip(translation) # <<>>
  THEN Strip(translation)
  ELSE original

\* Lines 738-741: the single-unit retry of translate_stream.
StreamRetryEntry(raised, translation, sentence) ==
  IF raised THEN sentence
  ELSE IF Len(translation) > 0 THEN Strip(translation[1])
  ELSE sentence

\* Lines 661-757: the translations of one batch of translate_stream.
StreamTranslations(batch, beh) ==
  IF ~beh.raises
  THEN [i \in 1..Len(batch) |->
          StreamBatchedEntry(EngineDecode(beh.outs[i], batch[i]), batch[i])]
  ELSE [i \in 1..Len(batch) |->
          StreamRetryEntry(beh.retry[i] = "raise",
                           <<EngineDecode(beh.retry[i], batch[i])>>, batch[i])]

\* A variant of StreamChunks that numbers the chunks within their batch.
StreamChunksNumberedInBatch(batch_idx, total, translations) ==
  [i \in 1..Len(translations) |-> Chunk(i - 1, total, translations[i])]

\* A variant of StreamChunks that writes the chunks of a batch last unit
\* first.
StreamChunksLastFirst(batch_idx, total, translations) ==
  [i \in 1..Len(translations) |->
     Chunk(batch_idx + Len(translations) - i, total,
           translations[Len(translations) + 1 - i])]

\* Lines 701-713 and 745-757: one chunk event per unit of the batch.
StreamChunks(batch_idx, total, translations) ==
  [i \in 1..Len(translations) |->
     Chunk(batch_idx + i - 1, total, translations[i])]

\* Lines 759-787: the last event of translate_stream.
StreamFinal(total, sentences) ==
  IF sentences = <<>> THEN ErrorEvent("All translation sentences failed")
  ELSE Complete(total, Join(sentences, <<" ">>))

\* What the engine did for each unit of a batch, in the batched call and in
\* the unit's retry: "ok" (a true translation), "void" (an empty or
\* whitespace-only output), "raise" (the call raised), "none" (no call).
LogKind(kind) == IF kind \in {"blank", "empty"} THEN "void" ELSE kind

LogOf(beh, i) ==
  [batch |-> IF beh.raises THEN "raise" ELSE LogKind(beh.outs[i]),
   retry |-> LogKind(beh.retry[i])]

NotCalled == [batch |-> "none", retry |-> "none"]

(***************************************************************************)
(* State                                                                   *)
(***************************************************************************)
VARIABLES
  cpu_count,             \* line 59: multiprocessing.cpu_count()
  vocab,                 \* tokenizer.get_vocab() of the model directory
  model_cache,           \* line 79: _model_cache, None or the loaded handle
  load_count,            \* the handles load_model has built (line 330 reached)
  tokenizer_src_lang,    \* tokenizer.src_lang of the cached handle, else None
  pc,                    \* where the server process is
  exit_code,             \* the exit status once the process has ended, else -1
  nread,                 \* request lines read so far
  req,                   \* the line being handled (main's req and its fields)
  result,                \* main's result for the current line (the value an
                         \* earlier line left is never read)
  out,                   \* the lines written to stdout for the current line
  pipeline,              \* the function main called for the current line
  units,                 \* translate / translate_stream: units
  batch_size,            \* ... batch_size in use
  total_batches,         \* translate: total_batches
  use_parallel_batches,  \* translate: use_parallel_batches
  future_state,          \* translate: the state of each submitted future
  batch_returns,         \* what process_batch returned for each batch
  batch_results,         \* translate: the pre-sized slot array
  completed_count,       \* translate: completed_count of the collector
  reordered,             \* the collector took a future before a lower-numbered one
  translated_sentences,  \* translate / translate_stream: translated_sentences
  next_batch,            \* position of the sequential loops in BatchStarts
  engineLog,             \* what the engine did for each unit of the request
  tgt_lang_id,           \* translate / translate_stream: tgt_lang_id, once set
  forced_bos_token_ids,  \* the forced_bos_token_id of the request's generate calls
  nphase,                \* strip_markdown on its own: the step reached
  ntext,                 \* ... its input
  nstate,                \* ... its result and placeholder map
  nunits,                \* ... split_into_units of the result, or of the input
  nagain,                \* ... strip_markdown of the result
  cphase,                \* the engine calls for one batch: the step reached
  cstream,               \* ... made by translate_stream, or by translate
  cdevice,               \* ... device
  clens,                 \* ... len(unit) of each unit of the batch
  ccalls                 \* ... the arguments of each model.generate call

\* The engine handle and its state.
engineVars == <<model_cache, load_count, tokenizer_src_lang>>

serverVars ==
  <<cpu_count, vocab, engineVars, pc, exit_code, nread, req, result, out,
    pipeline, units, batch_size, total_batches, use_parallel_batches,
    future_state, batch_returns, batch_results, completed_count, reordered,
    translated_sentences, next_batch, engineLog, tgt_lang_id,
    forced_bos_token_ids>>

normVars == <<nphase, ntext, nstate, nunits, nagain>>

callVars == <<cphase, cstream, cdevice, clens, ccalls>>

vars == <<serverVars, normVars, callVars>>

requestVars ==
  <<units, batch_size, total_batches, use_parallel_batches, future_state,
    batch_returns, batch_results, completed_count, reordered,
    translated_sentences, next_batch, engineLog, tgt_lang_id,
    forced_bos_token_ids>>

NoNormState == [text |-> <<>>, phs |-> <<>>, counter |-> 0]

\* The process before main runs, on any machine.
InitProcess ==
  /\ model_cache = None
  /\ load_count = 0
  /\ tokenizer_src_lang = None
  /\ pc = "boot"
  /\ exit_code = -1
  /\ nread = 0
  /\ req = NoLine
  /\ result = NoResult
  /\ out = <<>>
  /\ pipeline = "none"
  /\ units = <<>>
  /\ batch_size = 0
  /\ total_batches = 0
  /\ use_parallel_batches = FALSE
  /\ future_state = <<>>
  /\ batch_returns = <<>>
  /\ batch_results = <<>>
  /\ completed_count = 0
  /\ reordered = FALSE
  /\ translated_sentences = <<>>
  /\ next_batch = 1
  /\ engineLog = <<>>
  /\ tgt_lang_id = None
  /\ forced_bos_token_ids = {}

InitServer == cpu_count \in CpuCounts /\ InitProcess

InitNorm ==
  /\ nphase = "idle"
  /\ ntext = <<>>
  /\ nstate = NoNormState
  /\ nunits = <<>>
  /\ nagain = <<>>

InitCall ==
  /\ cphase = "idle"
  /\ cstream = FALSE
  /\ cdevice = "cpu"
  /\ clens = <<>>
  /\ ccalls = <<>>

Init == InitServer /\ vocab = NllbVocab /\ InitNorm /\ InitCall

\* A variant of load_model without the test of the cache: every call
\* builds a handle.
load_model_uncached(cache, built) == Some(built)

\* Lines 207-210 and 329-332: load_model returns the cached handle when
\* there is one; otherwise it caches and returns the handle it has built.
load_model(cache, built) == IF cache # None THEN cache ELSE Some(built)

\* The handle the next load would build on device d: (tokenizer, model,
\* device), told from the other handles by the ordinal of its load.
Built(d) == [device |-> d, load |-> load_count + 1]

\* tokenizer, model, device = load_model() at lines 384 and 606: the cache
\* after the call, the loads counted, and the tokenizer's src_lang, which a
\* load sets to the default.
Reload(d) ==
  /\ model_cache' = load_model(model_cache, Built(d))
  /\ load_count' = IF model_cache' = model_cache THEN load_count
                   ELSE load_count + 1

\* The tokenizer's src_lang when the call of load_model returns.
SrcLangAfterLoad ==
  IF model_cache' = model_cache THEN tokenizer_src_lang ELSE Some(DefaultSrcLang)

\* device, of the handle the call of load_model returned.
Device == model_cache'[1].device

\* A variant of AfterLoadFailure where main goes on to its loop although
\* the load failed.
AfterLoadFailureIgnored == [pc |-> "read", exit_code |-> -1]

\* Lines 838-843: load_model re-raises (344, 347) out of main's outer try,
\* whose handler ends the process with sys.exit(1).
AfterLoadFailure == [pc |-> "exited", exit_code |-> 1]

\* Lines 792-796 with load_model (205-347): the startup load.  It caches the
\* handle, whose tokenizer has the default src_lang, or it raises before
\* line 330 and main exits.
LoadModel ==
  /\ pc = "boot"
  /\ \/ /\ \E d \in Devices : Reload(d)
        /\ tokenizer_src_lang' = SrcLangAfterLoad
        /\ pc' = "read"
        /\ UNCHANGED exit_code
     \/ /\ pc' = AfterLoadFailure.pc
        /\ exit_code' = AfterLoadFailure.exit_code
        /\ UNCHANGED engineVars
  /\ UNCHANGED <<cpu_count, vocab, nread, req, result, out, pipeline, requestVars,
                 normVars, callVars>>

\* str(req.get("text") or "").strip()
TextOf(line) == IF line.text = None THEN <<>> ELSE Strip(line.text[1])

\* A variant of Written where the handler of every Exception comes first
\* and so answers the lines that are not JSON too.
WrittenByGenericHandler(line) ==
  IF line.kind \in {"badjson", "nonobject", "badsize"}
  THEN <<Failure("Translation failed")>>
  ELSE <<>>

\* A variant of Written where only the handler of JSONDecodeError writes an
\* answer.
WrittenForBadJsonOnly(line) ==
  IF line.kind = "badjson" THEN <<Failure("Invalid JSON")>> ELSE <<>>

\* Lines 809-821 and 832-837: what main writes for a line before, or
\* instead of, calling translate or translate_stream.  json.loads raises
\* JSONDecodeError on a line that is not JSON (832-834); req.get raises on
\* JSON that is not an object and int() on a bad batch_size (835-837).
Written(line) ==
  CASE line.kind = "badjson" -> <<Failure("Invalid JSON")>>
    [] line.kind \in {"nonobject", "badsize"} -> <<Failure("Translation failed")>>
    [] OTHER -> <<>>

\* The line is dispatched to translate or translate_stream (lines 822-827).
Dispatched(line) == line.kind = "request" /\ TextOf(line) # <<>>

\* Lines 799-837 up to the call of translate or translate_stream: read one
\* line and answer it, or dispatch it.  The (empty text) result of line 821
\* is assigned and not written.
ReadLineFrom(S) ==
  /\ pc = "read"
  /\ \E line \in S :
       /\ line.kind # "eof" => nread < MaxRequests
       /\ req' = line
       /\ nread' = IF line.kind = "eof" THEN nread ELSE nread + 1
       /\ units' = <<>>
       /\ batch_size' = 0
       /\ total_batches' = 0
       /\ use_parallel_batches' = FALSE
       /\ future_state' = <<>>
       /\ batch_returns' = <<>>
       /\ batch_results' = <<>>
       /\ completed_count' = 0
       /\ reordered' = FALSE
       /\ translated_sentences' = <<>>
       /\ next_batch' = 1
       /\ engineLog' = <<>>
       /\ tgt_lang_id' = None
       /\ forced_bos_token_ids' = {}
       /\ pipeline' = "none"
       /\ result' = IF line.kind = "request" /\ TextOf(line) = <<>>
                    THEN Failure("Missing or empty 'text' field")
                    ELSE NoResult
       /\ out' = Written(line)
       /\ pc' = IF line.kind = "eof" THEN "exited"
                ELSE IF ~Dispatched(line) THEN "read"
                ELSE IF line.stream THEN "stream_call" ELSE "translate_call"
       /\ exit_code' = IF line.kind = "eof" THEN 0 ELSE exit_code
  /\ UNCHANGED <<cpu_count, vocab, engineVars, normVars, callVars>>

ReadLine == ReadLineFrom(Lines)

\* The same, for the runs that vary the source language.
ReadLangLine == ReadLineFrom(LangLines)

\* The same, for the runs that vary the target language.
ReadTargetLine == ReadLineFrom(TargetLines)

\* The same, for the runs that vary the machine.
ReadSizeLine == ReadLineFrom(SizeLines)

(***************************************************************************)
(* translate                                                               *)
(***************************************************************************)

\* Lines 375-434 and 530-543: translate up to the dispatch of the batches.
\* With units it sets the tokenizer's src_lang to the request's (line 417).
\* It returns early without units, raises ZeroDivisionError at line 433 for
\* batch size 0 (main answers at 835-837), and otherwise either submits
\* every batch to the pool or enters the sequential loop.
TranslateStart ==
  /\ pc = "translate_call"
  /\ pipeline' = "translate"
  /\ \E d \in Devices : Reload(d)
  /\ LET bs == EffectiveBatchSize(req.batch_size, Device, cpu_count)
         us == UnitsOf(TextOf(req))
         n  == Len(us)
     IN  /\ batch_size' = bs
         /\ units' = us
         /\ engineLog' = [i \in 1..n |-> NotCalled]
         /\ tokenizer_src_lang' =
              IF us = <<>> THEN SrcLangAfterLoad ELSE Some(req.src_lang)
         /\ tgt_lang_id' =
              IF us = <<>> THEN None ELSE Some(TargetLangId(vocab, req.tgt_lang))
         /\ IF us = <<>>
            THEN /\ result' = Failure("No valid sentences found in input text")
                 /\ out' = <<result'>>
                 /\ pc' = "read"
                 /\ UNCHANGED <<total_batches, use_parallel_batches, future_state,
                                batch_returns, batch_results>>
            ELSE IF bs = 0
            THEN /\ out' = <<Failure("Translation failed")>>
                 /\ pc' = "read"
                 /\ UNCHANGED <<result, total_batches, use_parallel_batches,
                                future_state, batch_returns, batch_results>>
            ELSE LET total == TotalBatches(n, bs)
                     par   == UseParallelBatches(Device, total, cpu_count)
                     nb    == Len(BatchStarts(n, bs))
                 IN  /\ total_batches' = total
                     /\ use_parallel_batches' = par
                     /\ batch_returns' = [k \in 1..nb |-> None]
                     /\ future_state' = IF par THEN [k \in 1..nb |-> "queued"] ELSE <<>>
                     /\ batch_results' = IF par THEN [k \in 1..total |-> None] ELSE <<>>
                     /\ pc' = IF par THEN "parallel" ELSE "sequential"
                     /\ UNCHANGED <<result, out>>
  /\ UNCHANGED <<cpu_count, vocab, exit_code, nread, req, completed_count,
                 reordered, translated_sentences, next_batch,
                 forced_bos_token_ids, normVars, callVars>>

\* The units of batch number k (1-based position in BatchStarts).
BatchOf(k) == BatchAt(units, BatchStarts(Len(units), batch_size)[k], batch_size)

\* The engine log after a call on batch number k under behaviour beh.
Logged(k, beh) ==
  LET start == BatchStarts(Len(units), batch_size)[k]
  IN  [i \in 1..Len(units) |->
         IF i > start /\ i <= start + Len(BatchOf(k))
         THEN LogOf(beh, i - start)
         ELSE engineLog[i]]

\* Lines 576-585: one iteration of the sequential loop.
SequentialBatch ==
  /\ pc = "sequential"
  /\ next_batch <= Len(batch_returns)
  /\ \E beh \in Behaviours(Len(BatchOf(next_batch))) :
       LET r == process_batch(BatchOf(next_batch), next_batch - 1, beh)
       IN  /\ batch_returns' = [batch_returns EXCEPT ![next_batch] = Some(r)]
           /\ translated_sentences' = translated_sentences \o r.translations
           /\ engineLog' = Logged(next_batch, beh)
  /\ forced_bos_token_ids' = forced_bos_token_ids \cup {tgt_lang_id[1]}
  /\ next_batch' = next_batch + 1
  /\ UNCHANGED <<cpu_count, vocab, engineVars, pc, exit_code, nread, req, result, out,
                 pipeline, units, batch_size, total_batches, use_parallel_batches,
                 future_state, batch_results, completed_count, reordered,
                 tgt_lang_id, normVars, callVars>>

\* A variant of PoolShutDown that does not wait for the tasks.
PoolShutDownWithoutWaiting(futures) == TRUE

\* Lines 536-568: the with block of the pool is left once the as_completed
\* loop has handed over every future, and leaving it shuts the pool down
\* after waiting for its tasks.
PoolShutDown(futures) ==
  \A k \in 1..Len(futures) : futures[k] = "collected"

\* ThreadPoolExecutor: a free worker takes the oldest queued task.
TaskStart ==
  /\ pc = "parallel"
  /\ \E k \in 1..Len(future_state) :
       /\ future_state[k] = "queued"
       /\ \A j \in 1..(k - 1) : future_state[j] # "queued"
       /\ Cardinality({j \in 1..Len(future_state) : future_state[j] = "running"})
            < MaxWorkers(cpu_count)
       /\ future_state' = [future_state EXCEPT ![k] = "running"]
  /\ UNCHANGED <<cpu_count, vocab, engineVars, pc, exit_code, nread, req, result, out,
                 pipeline, units, batch_size, total_batches, use_parallel_batches,
                 batch_returns, batch_results, completed_count, reordered,
                 translated_sentences, next_batch, engineLog, tgt_lang_id,
                 forced_bos_token_ids, normVars, callVars>>

\* A worker finishes process_batch (lines 437-527) for its batch.
TaskFinish ==
  /\ pc = "parallel"
  /\ \E k \in 1..Len(future_state) :
       /\ future_state[k] = "running"
       /\ \E beh \in Behaviours(Len(BatchOf(k))) :
            /\ batch_returns' =
                 [batch_returns EXCEPT ![k] = Some(process_batch(BatchOf(k), k - 1, beh))]
            /\ engineLog' = Logged(k, beh)
       /\ future_state' = [future_state EXCEPT ![k] = "done"]
  /\ forced_bos_token_ids' = forced_bos_token_ids \cup {tgt_lang_id[1]}
  /\ UNCHANGED <<cpu_count, vocab, engineVars, pc, exit_code, nread, req, result, out,
                 pipeline, units, batch_size, total_batches, use_parallel_batches,
                 batch_results, completed_count, reordered, translated_sentences,
                 next_batch, tgt_lang_id, normVars, callVars>>

\* Lines 547-568: as_completed hands the collector a finished future, in
\* whatever order the futures finish.  A future that raised has its batch
\* processed again by the collector.
Collect ==
  /\ pc = "parallel"
  /\ \E k \in 1..Len(future_state) :
       /\ future_state[k] = "done"
       /\ future_state' = [future_state EXCEPT ![k] = "collected"]
       /\ reordered' = (reordered \/ \E j \in 1..(k - 1) : future_state[j] # "collected")
       /\ IF ~batch_returns[k][1].raised
          THEN /\ batch_results' =
                    StoreResult(batch_results, batch_returns[k][1].idx,
                                batch_returns[k][1].translations)
               /\ completed_count' =
                    IF InRange(batch_results, batch_returns[k][1].idx)
                    THEN completed_count + 1
                    ELSE completed_count
               /\ UNCHANGED <<batch_returns, engineLog, forced_bos_token_ids>>
          ELSE \E beh \in Behaviours(Len(BatchOf(k))) :
                 LET r == process_batch(BatchOf(k), k - 1, beh)
                 IN  /\ batch_returns' = [batch_returns EXCEPT ![k] = Some(r)]
                     /\ engineLog' = Logged(k, beh)
                     /\ batch_results' =
                          IF r.raised THEN batch_results
                          ELSE StoreResult(batch_results, k - 1, r.translations)
                     /\ forced_bos_token_ids' =
                          forced_bos_token_ids \cup {tgt_lang_id[1]}
                     /\ UNCHANGED completed_count
  /\ UNCHANGED <<cpu_count, vocab, engineVars, pc, exit_code, nread, req, result, out,
                 pipeline, units, batch_size, total_batches, use_parallel_batches,
                 translated_sentences, next_batch, tgt_lang_id, normVars, callVars>>

\* Lines 570-573 and 587-593, then main's lines 827-830: once every future
\* is collected (the pool is shut down) or the sequential loop has ended,
\* translate returns its result and main writes it.
TranslateReturn ==
  /\ \/ /\ pc = "parallel"
        /\ PoolShutDown(future_state)
        /\ translated_sentences' = CombineResults(batch_results)
     \/ /\ pc = "sequential"
        /\ next_batch > Len(batch_returns)
        /\ UNCHANGED translated_sentences
  /\ result' = TranslateResult(translated_sentences')
  /\ out' = <<result'>>
  /\ pc' = "read"
  /\ UNCHANGED <<cpu_count, vocab, engineVars, exit_code, nread, req, pipeline, units,
                 batch_size, total_batches, use_parallel_batches, future_state,
                 batch_returns, batch_results, completed_count, reordered, next_batch,
                 engineLog, tgt_lang_id, forced_bos_token_ids, normVars, callVars>>

(***************************************************************************)
(* translate_stream                                                        *)
(***************************************************************************)

\* Lines 596-658: translate_stream up to its loop.  With units it sets the
\* tokenizer's src_lang to the request's (line 642).  Without units it writes
\* one error event; range(0, len(units), 0) raises ValueError at line 658
\* (main answers at 835-837).
StreamStart ==
  /\ pc = "stream_call"
  /\ pipeline' = "stream"
  /\ \E d \in Devices : Reload(d)
  /\ LET bs == EffectiveBatchSize(req.batch_size, Device, cpu_count)
         us == UnitsOf(TextOf(req))
         n  == Len(us)
     IN  /\ batch_size' = bs
         /\ units' = us
         /\ engineLog' = [i \in 1..n |-> NotCalled]
         /\ tokenizer_src_lang' =
              IF us = <<>> THEN SrcLangAfterLoad ELSE Some(req.src_lang)
         /\ tgt_lang_id' =
              IF us = <<>> THEN None ELSE Some(TargetLangId(vocab, req.tgt_lang))
         /\ IF us = <<>>
            THEN /\ out' = <<ErrorEvent("No sentences found in input text")>>
                 /\ pc' = "read"
                 /\ UNCHANGED batch_returns
            ELSE IF bs = 0
            THEN /\ out' = <<Failure("Translation failed")>>
                 /\ pc' = "read"
                 /\ UNCHANGED batch_returns
            ELSE /\ batch_returns' = [k \in 1..Len(BatchStarts(n, bs)) |-> None]
                 /\ pc' = "streaming"
                 /\ UNCHANGED out
  /\ UNCHANGED <<cpu_count, vocab, exit_code, nread, req, result,
                 total_batches, use_parallel_batches, future_state, batch_results,
                 completed_count, reordered, translated_sentences, next_batch,
                 forced_bos_token_ids, normVars, callVars>>

\* Lines 658-757: one iteration of the loop: the batch is translated (or,
\* after a raise, each of its units alone) and one chunk is written per unit.
StreamBatch ==
  /\ pc = "streaming"
  /\ next_batch <= Len(batch_returns)
  /\ \E beh \in Behaviours(Len(BatchOf(next_batch))) :
       LET start == BatchStarts(Len(units), batch_size)[next_batch]
           tr    == StreamTranslations(BatchOf(next_batch), beh)
       IN  /\ batch_returns' =
                [batch_returns EXCEPT ![next_batch] =
                   Some([raised |-> FALSE, idx |-> next_batch - 1, translations |-> tr])]
           /\ translated_sentences' = translated_sentences \o tr
           /\ out' = out \o StreamChunks(start, Len(units), tr)
           /\ engineLog' = Logged(next_batch, beh)
  /\ forced_bos_token_ids' = forced_bos_token_ids \cup {tgt_lang_id[1]}
  /\ next_batch' = next_batch + 1
  /\ UNCHANGED <<cpu_count, vocab, engineVars, pc, exit_code, nread, req, result,
                 pipeline, units, batch_size, total_batches, use_parallel_batches,
                 future_state, batch_results, completed_count, reordered,
                 tgt_lang_id, normVars, callVars>>

\* Lines 759-787: after the loop, the error event or the completion event.
StreamFinish ==
  /\ pc = "streaming"
  /\ next_batch > Len(batch_returns)
  /\ out' = Append(out, StreamFinal(Len(units), translated_sentences))
  /\ pc' = "read"
  /\ UNCHANGED <<cpu_count, vocab, engineVars, exit_code, nread, req, result, pipeline,
                 requestVars, normVars, callVars>>

(***************************************************************************)
(* The server                                                              *)
(***************************************************************************)
Next ==
  \/ LoadModel
  \/ ReadLine
  \/ TranslateStart
  \/ SequentialBatch
  \/ TaskStart
  \/ TaskFinish
  \/ Collect
  \/ TranslateReturn
  \/ StreamStart
  \/ StreamBatch
  \/ StreamFinish

Spec == Init /\ [][Next]_vars

\* The server on the requests that vary the source language.
NextLang ==
  \/ LoadModel
  \/ ReadLangLine
  \/ TranslateStart
  \/ SequentialBatch
  \/ TaskStart
  \/ TaskFinish
  \/ Collect
  \/ TranslateReturn
  \/ StreamStart
  \/ StreamBatch
  \/ StreamFinish

SpecLang == Init /\ [][NextLang]_vars

\* The server on the requests that vary the target language, with any of
\* the vocabularies.
InitTarget == InitServer /\ vocab \in Vocabularies /\ InitNorm /\ InitCall

NextTarget ==
  \/ LoadModel
  \/ ReadTargetLine
  \/ TranslateStart
  \/ SequentialBatch
  \/ TaskStart
  \/ TaskFinish
  \/ Collect
  \/ TranslateReturn
  \/ StreamStart
  \/ StreamBatch
  \/ StreamFinish

SpecTarget == InitTarget /\ [][NextTarget]_vars

\* The server on machines of other sizes.
InitSize ==
  cpu_count \in MachineCpuCounts /\ InitProcess /\ vocab = NllbVocab /\ InitNorm /\ InitCall

NextSize ==
  \/ LoadModel
  \/ ReadSizeLine
  \/ TranslateStart
  \/ SequentialBatch
  \/ TaskStart
  \/ TaskFinish
  \/ Collect
  \/ TranslateReturn
  \/ StreamStart
  \/ StreamBatch
  \/ StreamFinish

SpecSize == InitSize /\ [][NextSize]_vars

(***************************************************************************)
(* strip_markdown and split_into_units on their own, on every text over    *)
(* Alphabet of at most MaxTextLen characters                               *)
(***************************************************************************)
ChooseText ==
  /\ nphase = "idle"
  /\ ntext' \in TextsUpTo(MaxTextLen)
  /\ nphase' = "chosen"
  /\ UNCHANGED <<nstate, nunits, nagain, serverVars, callVars>>

Normalize ==
  /\ nphase = "chosen"
  /\ nstate' = StripMarkdownState(ntext)
  /\ nphase' = "normalized"
  /\ UNCHANGED <<ntext, nunits, nagain, serverVars, callVars>>

Segment ==
  /\ nphase = "normalized"
  /\ nunits' = split_into_units(nstate.text)
  /\ nphase' = "segmented"
  /\ UNCHANGED <<ntext, nstate, nagain, serverVars, callVars>>

\* split_into_units applied to the text as it is.
SegmentRaw ==
  /\ nphase = "chosen"
  /\ nunits' = split_into_units(ntext)
  /\ nphase' = "split"
  /\ UNCHANGED <<ntext, nstate, nagain, serverVars, callVars>>

\* strip_markdown applied to its own result.
Renormalize ==
  /\ nphase = "normalized"
  /\ nagain' = strip_markdown(nstate.text)
  /\ nphase' = "renormalized"
  /\ UNCHANGED <<ntext, nstate, nunits, serverVars, callVars>>

\* strip_markdown is given a text with several math spans.
ChooseMathText ==
  /\ nphase = "idle"
  /\ ntext' \in MathTexts(MaxSpans)
  /\ nphase' = "chosen"
  /\ UNCHANGED <<nstate, nunits, nagain, serverVars, callVars>>

\* Lines 100-148 of strip_markdown: the four extraction passes.
Extract ==
  /\ nphase = "chosen"
  /\ nstate' = ExtractMath(ntext)
  /\ nphase' = "extracted"
  /\ UNCHANGED <<ntext, nunits, nagain, serverVars, callVars>>

NextNorm == ChooseText \/ Normalize \/ Segment \/ SegmentRaw \/ Renormalize

\* The server does not run in this specification; one host is enough.
InitOfNorm == Init /\ cpu_count = Min(CpuCounts)

SpecNorm == InitOfNorm /\ [][NextNorm]_vars

\* The extraction passes of strip_markdown on their own, on the texts with
\* several math spans.
NextMath == ChooseMathText \/ Extract

SpecMath == InitOfNorm /\ [][NextMath]_vars

(***************************************************************************)
(* The engine calls for one batch, on their own                            *)
(***************************************************************************)
ChooseBatch ==
  /\ cphase = "idle"
  /\ cstream' \in BOOLEAN
  /\ cdevice' \in Devices
  /\ clens' \in BatchesOfLengths(MaxUnits) \ {<<>>}
  /\ cphase' = "chosen"
  /\ UNCHANGED <<ccalls, serverVars, normVars>>

\* The try block of process_batch (441-493) or of translate_stream (661-713).
BatchedCall ==
  /\ cphase = "chosen"
  /\ ccalls' = <<IF cstream THEN stream_generate(cdevice, clens)
                 ELSE process_batch_generate(cdevice, clens)>>
  /\ cphase' = "batched"
  /\ UNCHANGED <<cstream, cdevice, clens, serverVars, normVars>>

\* The batched call raised: the retry loop (498-525 or 718-757) calls the
\* engine once per unit.
RetryCalls ==
  /\ cphase = "batched"
  /\ ccalls' = ccalls \o
       [i \in 1..Len(clens) |->
          IF cstream THEN stream_retry_generate(cdevice, clens[i])
          ELSE process_batch_retry_generate(cdevice, clens[i])]
  /\ cphase' = "retried"
  /\ UNCHANGED <<cstream, cdevice, clens, serverVars, normVars>>

NextCall == ChooseBatch \/ BatchedCall \/ RetryCalls

SpecCall == InitOfNorm /\ [][NextCall]_vars

(***************************************************************************)
(* Properties                                                              *)
(***************************************************************************)

\* The engine truly translated unit i (1-based) of the current request.
TrulyTranslated(i) == engineLog[i].batch = "ok" \/ engineLog[i].retry = "ok"

\* The translation of unit i failed: its output was empty or whitespace
\* only, or the batch raised and its retry raised or gave such an output.
Failed(i) ==
  \/ engineLog[i].batch = "void"
  \/ engineLog[i].batch = "raise" /\ engineLog[i].retry \in {"void", "raise"}

\* The current request went through function p and has been answered.
Answered(p) == pc = "read" /\ pipeline = p

\* Position before the first unit of batch number k.
StartOf(k) == BatchStarts(Len(units), batch_size)[k]

\* The chunk events written for unit index i (0-based).
ChunksFor(i) == {j \in 1..Len(out) : out[j].type = "chunk" /\ out[j].index = i}

\* C1: whatever the engine does (outputs, empty or whitespace-only outputs,
\* a raise on the batch, raises on retries), process_batch returns exactly
\* one translation per unit of its batch, entry i being that of unit i.
CardinalityPreserved ==
  pipeline = "translate" =>
    \A k \in 1..Len(batch_returns) :
      batch_returns[k] # None =>
        LET tr == batch_returns[k][1].translations
            b  == BatchOf(k)
        IN  /\ Len(tr) = Len(b)
            /\ \A i \in 1..Len(b) :
                 IF TrulyTranslated(StartOf(k) + i)
                 THEN tr[i] = Translation(b[i])
                 ELSE tr[i] \in {b[i], <<>>}

\* C1 happens: a batch of two or more units whose batched call raised, with
\* one retry raising and another succeeding, has been returned.
CardinalityWitness ==
  /\ pipeline = "translate"
  /\ \E k \in 1..Len(batch_returns) :
       /\ batch_returns[k] # None
       /\ Len(BatchOf(k)) >= 2
       /\ engineLog[StartOf(k) + 1].retry = "raise"
       /\ engineLog[StartOf(k) + 2].retry = "ok"
       /\ Len(batch_returns[k][1].translations) = 2

\* The sentences the sequential loop (lines 576-581) collects from the same
\* per-batch returns: the batches in index order.
SequentialSentences ==
  Flatten([k \in 1..Len(batch_returns) |-> batch_returns[k][1].translations])

\* C2: in concurrent mode, whatever the order in which the batch tasks
\* complete and are collected, translate returns what sequential execution
\* of the same batches with the same engine outputs returns.
ConcurrentMatchesSequential ==
  (Answered("translate") /\ use_parallel_batches) =>
    /\ \A k \in 1..Len(batch_returns) : batch_returns[k] # None
    /\ result = TranslateResult(SequentialSentences)

\* C2 happens: a concurrent request of three or more batches, collected out
\* of index order, has been answered.
ConcurrentWitness ==
  /\ Answered("translate")
  /\ use_parallel_batches
  /\ reordered
  /\ Len(batch_returns) >= 3
  /\ result.success

\* C3: strip_markdown returns a text that contains every math span it
\* extracted, character for character.
MathSpansPreserved ==
  nphase \in {"normalized", "segmented"} =>
    \A p \in 1..Len(nstate.phs) : Contains(nstate.text, nstate.phs[p].value)

\* C4: a request line whose text is missing, empty or whitespace only is
\* answered with exactly one line, the missing-text failure, and neither
\* translate nor translate_stream is called.
EmptyTextAnswered ==
  (pc = "read" /\ req.kind = "request" /\ TextOf(req) = <<>>) =>
    /\ out = <<Failure("Missing or empty 'text' field")>>
    /\ pipeline = "none"

\* C5: a streaming request with N >= 1 units writes exactly one chunk per
\* index 0..N-1, the chunk of a unit whose translation failed carries the
\* unit's original text, and exactly one completion event follows the
\* chunks.
StreamChunksExactlyOnce ==
  (Answered("stream") /\ Len(units) >= 1) =>
    /\ \A i \in 0..(Len(units) - 1) : Cardinality(ChunksFor(i)) = 1
    /\ \A i \in 0..(Len(units) - 1) :
         Failed(i + 1) => \A j \in ChunksFor(i) : out[j].translated = units[i + 1]
    /\ Len(out) = Len(units) + 1
    /\ \A j \in 1..Len(units) : out[j].type = "chunk"
    /\ out[Len(out)].type = "complete"

\* Every unit of the current request was handed to the engine and failed.
AllFailed == Len(units) >= 1 /\ \A i \in 1..Len(units) : Failed(i)

\* C6: in aggregate mode, when every unit failed to translate, translate
\* returns success = false with a reason.
AllFailedReportsFailure ==
  (Answered("translate") /\ AllFailed) =>
    /\ ~result.success
    /\ result.error # ""

\* C7: in streaming mode, when every translation failed, exactly one error
\* event is written, and no chunk and no completion event.
AllFailedEmitsOneError ==
  (Answered("stream") /\ AllFailed) =>
    /\ Len(out) = 1
    /\ out[1].type = "error"
    /\ ~out[1].success

\* C8: when the engine truly translated at least one unit, the request does
\* not fail: translate returns success = true and main writes it, and
\* translate_stream ends with a completion event.
AnyTranslationMeansSuccess ==
  (pc = "read" /\ pipeline # "none" /\ \E i \in 1..Len(units) : TrulyTranslated(i)) =>
    /\ pipeline = "translate" => (result.success /\ out = <<result>>)
    /\ pipeline = "stream" => (out # <<>> /\ out[Len(out)].type = "complete")

\* C8 happens: an aggregate request with one unit truly translated and
\* another whose batch and retry both raised has been answered.
AnyTranslationWitness ==
  /\ Answered("translate")
  /\ \E i \in 1..Len(units) : TrulyTranslated(i)
  /\ \E i \in 1..Len(units) : engineLog[i].retry = "raise"
  /\ result.success

\* C9: whenever the engine's output for a unit is empty or whitespace only,
\* or the unit's retry raises, the translation recorded for the unit is its
\* original text, in the batched path and in the retry path, in translate
\* and in translate_stream.
FailedUnitKeepsOriginal ==
  \A k \in 1..Len(batch_returns) :
    batch_returns[k] # None =>
      \A i \in 1..Len(BatchOf(k)) :
        Failed(StartOf(k) + i) =>
          batch_returns[k][1].translations[i] = BatchOf(k)[i]

\* The combined result holds the outcome of batch index b (0-based).
BatchOutcomePresent(b) ==
  \E k \in 1..Len(batch_returns) :
    /\ batch_returns[k] # None
    /\ batch_returns[k][1].idx = b
    /\ LET tr == batch_returns[k][1].translations
       IN  /\ Len(tr) >= 1
           /\ b * batch_size + Len(tr) <= Len(translated_sentences)
           /\ SubSeq(translated_sentences, b * batch_size + 1,
                     b * batch_size + Len(tr)) = tr

\* C10: for every request with at least one unit, the combined
\* result holds an outcome for every batch index 0..total_batches-1.
EveryBatchHasOutcome ==
  (Answered("translate") /\ Len(units) >= 1) =>
    \A b \in 0..(total_batches - 1) : BatchOutcomePresent(b)

\* translate or translate_stream has formed the batches of the current
\* request and is processing them.
BatchesFormed == pc \in {"sequential", "parallel", "streaming"}

\* The batches of the current request, in batch order.
BatchesInOrder == [k \in 1..Len(batch_returns) |-> BatchOf(k)]

\* C11: the batches translate and translate_stream form, concatenated in
\* batch order then within-batch order, are the unit sequence, every unit
\* exactly once; every batch but the last has batch_size units and the last
\* has between one and batch_size.
BatchesPartitionUnits ==
  BatchesFormed =>
    LET nb == Len(batch_returns)
    IN  /\ Flatten(BatchesInOrder) = units
        /\ \A k \in 1..(nb - 1) : Len(BatchOf(k)) = batch_size
        /\ nb >= 1 => (1 <= Len(BatchOf(nb)) /\ Len(BatchOf(nb)) <= batch_size)

\* The line being handled is a streaming request with a text: main calls
\* translate_stream for it, unless an earlier field of the line raises.
StreamingRequest ==
  req.kind \in {"request", "badsize"} /\ req.stream /\ TextOf(req) # <<>>

\* C12: what a streaming request writes is either chunk events ended by
\* exactly one completion event, or an error event with success = false;
\* every line written carries a type, also when an exception leaves the
\* pipeline.
StreamingAnswerWellFormed ==
  (pc = "read" /\ StreamingRequest) =>
    /\ \A j \in 1..Len(out) : out[j].type \in {"chunk", "complete", "error"}
    /\ \/ /\ out # <<>>
          /\ out[Len(out)].type = "complete"
          /\ \A j \in 1..(Len(out) - 1) : out[j].type = "chunk"
       \/ \E j \in 1..Len(out) : out[j].type = "error" /\ ~out[j].success

\* C13: a line that is not JSON is answered with exactly one "Invalid JSON"
\* failure, no part of the pipeline runs for it, and the server goes on
\* reading: it has not exited and is ready to read the next line.
InvalidJsonAnswered ==
  req.kind = "badjson" =>
    /\ out = <<Failure("Invalid JSON")>>
    /\ pipeline = "none"
    /\ units = <<>> /\ engineLog = <<>> /\ batch_returns = <<>>
    /\ pc = "read"
    /\ exit_code = -1
    /\ nread < MaxRequests => ENABLED ReadLine

\* C13 happens: a line that is not JSON has been answered while the server
\* had already handled a line and can still read another.
InvalidJsonWitness ==
  /\ req.kind = "badjson"
  /\ nread = 2
  /\ out = <<Failure("Invalid JSON")>>
  /\ pc = "read"

\* C14: the engine is loaded at most once per process: once the cache is
\* set no step reassigns or clears it, and every later call of load_model
\* (from translate, from translate_stream) leaves that handle in it.
EngineLoadedOnce ==
  /\ [](load_count <= 1)
  /\ [][model_cache # None => model_cache' = model_cache]_vars

\* C14 happens: a second request has gone through translate or
\* translate_stream, and so through load_model, with the handle of the
\* startup load still cached.
EngineLoadedOnceWitness ==
  /\ pc = "read"
  /\ nread = 2
  /\ pipeline \in {"translate", "stream"}
  /\ model_cache # None
  /\ model_cache[1].load = 1
  /\ load_count = 1

\* C15: when the startup load fails the cache stays unset and the process
\* has ended with a non-zero status, having read no line and written no
\* answer.
LoadFailureIsFatal ==
  (pc # "boot" /\ model_cache = None) =>
    /\ pc = "exited"
    /\ exit_code > 0
    /\ nread = 0
    /\ req = NoLine
    /\ out = <<>>
    /\ load_count = 0

\* C15 happens: the startup load has failed and the process has ended.
LoadFailureWitness ==
  /\ pc = "exited"
  /\ exit_code = 1
  /\ model_cache = None

\* Normalization and segmentation of the request's text leave no unit
\* with a character that is not whitespace.
NoUnitLeft ==
  LET us == split_into_units(strip_markdown(TextOf(req)))
  IN  \A i \in 1..Len(us) : Strip(us[i]) = <<>>

\* C16: when normalization and segmentation leave no non-whitespace unit,
\* translate returns success = false with a reason, translate_stream writes
\* exactly one error event and nothing else, and the engine is not called
\* for the request.
NoUnitsAnswered ==
  (pc = "read" /\ pipeline # "none" /\ NoUnitLeft) =>
    /\ pipeline = "translate" =>
         (~result.success /\ result.error # "" /\ out = <<result>>)
    /\ pipeline = "stream" =>
         (Len(out) = 1 /\ out[1].type = "error" /\ ~out[1].success)
    /\ \A i \in 1..Len(engineLog) : engineLog[i] = NotCalled
    /\ \A k \in 1..Len(batch_returns) : batch_returns[k] = None

\* C16 happens: a streaming request whose text is markup only has been
\* answered.
NoUnitsWitness ==
  /\ pc = "read"
  /\ pipeline = "stream"
  /\ TextOf(req) # <<>>
  /\ NoUnitLeft
  /\ out # <<>>

\* t is what the pipeline records for unit i (1-based) given what the
\* engine did for it: its stripped translation, or a fallback.
RecordedFor(i, t) ==
  IF TrulyTranslated(i) THEN t = Translation(units[i])
  ELSE t \in {units[i], <<>>}

\* The translated values of the first n events written, in order.
ChunkTexts(n) == [i \in 1..n |-> out[i].translated]

\* C17: when translate succeeds its translated string is the single-space
\* join of exactly one translation per unit, in unit order; when
\* translate_stream completes, chunk i carries index i and the total number
\* of units, and the completion event carries that total and the
\* single-space join of the chunks' translated values in index order.
CombinedInUnitOrder ==
  /\ (Answered("translate") /\ result.success) =>
       /\ Len(translated_sentences) = Len(units)
       /\ \A i \in 1..Len(units) : RecordedFor(i, translated_sentences[i])
       /\ result.translated = Join(translated_sentences, <<" ">>)
  /\ (Answered("stream") /\ out # <<>> /\ out[Len(out)].type = "complete") =>
       LET N == Len(units)
       IN  /\ Len(out) = N + 1
           /\ \A i \in 1..N :
                /\ out[i].type = "chunk"
                /\ out[i].index = i - 1
                /\ out[i].total = N
                /\ RecordedFor(i, out[i].translated)
           /\ out[N + 1].total = N
           /\ out[N + 1].translated = Join(ChunkTexts(N), <<" ">>)

\* C17 happens: a streaming request of three or more units in two or more
\* batches has completed.
CombinedInUnitOrderWitness ==
  /\ Answered("stream")
  /\ Len(units) >= 3
  /\ Len(batch_returns) >= 2
  /\ out # <<>>
  /\ out[Len(out)].type = "complete"

\* Neither path of split_into_units finds a unit in the text.
BothPathsEmpty == LinePath(ntext) = <<>> /\ SentencePath(ntext) = <<>>

\* No unit of nunits is empty or whitespace only.
NoBlankUnit == \A i \in 1..Len(nunits) : Strip(nunits[i]) # <<>>

\* C18: split_into_units of a non-empty text returns at least one unit and
\* no empty or whitespace-only unit; when both paths yield nothing the
\* single unit returned is the trimmed text.
SegmentationNeverBlank ==
  (nphase = "split" /\ ntext # <<>>) =>
    /\ Len(nunits) >= 1
    /\ NoBlankUnit
    /\ BothPathsEmpty => nunits = <<Strip(ntext)>>

\* C18 as amended: split_into_units of a text that has a character other
\* than whitespace returns at least one unit and no empty or
\* whitespace-only unit; when both paths yield nothing (the text is empty
\* or whitespace only) the single unit returned is the text itself,
\* untrimmed.
SegmentationCoversText ==
  nphase = "split" =>
    /\ Strip(ntext) # <<>> => (Len(nunits) >= 1 /\ NoBlankUnit)
    /\ BothPathsEmpty => (Strip(ntext) = <<>> /\ nunits = <<ntext>>)

\* C18 happens: the line path has split a text with a blank line in it
\* into its units.
SegmentationWitness ==
  /\ nphase = "split"
  /\ Len(LinePath(ntext)) < Len(SplitLines(ntext))
  /\ nunits = LinePath(ntext)
  /\ nunits # <<>>

\* C20: strip_markdown applied to its own result returns that result.
NormalizerIdempotent ==
  nphase = "renormalized" => nagain = nstate.text

\* C19: once the handle is cached no step of a request changes the state
\* of the handle: here, the src_lang of its tokenizer.
HandleNotMutated ==
  [][model_cache # None => tokenizer_src_lang' = tokenizer_src_lang]_vars

\* translate has returned a value for the current request.
TranslateReturned == pipeline = "translate" /\ pc = "read" /\ result # NoResult

\* C21: whatever translate returns has a boolean "success"; a successful
\* result contains "translated" and an unsuccessful one contains "error".
TranslateReturnsWellFormed ==
  TranslateReturned =>
    /\ "success" \in result.keys
    /\ result.success \in BOOLEAN
    /\ result.success => "translated" \in result.keys
    /\ ~result.success => "error" \in result.keys

\* C21 witness: translate returned a failure for a text without units.
TranslateReturnsWitness ==
  /\ TranslateReturned
  /\ ~result.success
  /\ "error" \in result.keys
  /\ TextOf(req) # <<>>
  /\ units = <<>>

\* t is what the engine's own calls for unit i (1-based) yield, whatever
\* happened to the other units: the stripped translation when a call for it
\* succeeded, the original text when its batched output was void or its
\* retry raised, the stripped (empty) output of a void retry.
OwnOutcome(i, t) ==
  IF TrulyTranslated(i) THEN t = Translation(units[i])
  ELSE IF engineLog[i].retry = "void" THEN t = <<>>
  ELSE t = units[i]

\* The engine call for the whole batch of some unit raised.
SomeBatchRaised == \E i \in 1..Len(engineLog) : engineLog[i].batch = "raise"

\* C22: when the engine call for a whole batch raises, every unit of the
\* batch is retried on its own, a raising retry does not stop the retries
\* after it, every unit of every batch gets the outcome of its own calls,
\* and the request still runs all its batches and is answered by the
\* function that serves it.
BatchFailureContained ==
  /\ \A k \in 1..Len(batch_returns) :
       batch_returns[k] # None =>
         /\ Len(batch_returns[k][1].translations) = Len(BatchOf(k))
         /\ \A i \in 1..Len(BatchOf(k)) :
              /\ engineLog[StartOf(k) + i].batch = "raise" <=>
                   engineLog[StartOf(k) + i].retry # "none"
              /\ OwnOutcome(StartOf(k) + i,
                            batch_returns[k][1].translations[i])
  /\ (pc = "read" /\ pipeline \in {"translate", "stream"} /\ SomeBatchRaised) =>
       /\ \A k \in 1..Len(batch_returns) : batch_returns[k] # None
       /\ Len(translated_sentences) = Len(units)
       /\ out # <<>>
       /\ pipeline = "translate" => out = <<result>> /\ result # NoResult
       /\ pipeline = "stream" => out[Len(out)].type = "complete"

\* C22 witness: of three units in batches of two, the first batch raised,
\* the retry of its first unit raised, the retry of its second unit and
\* the second batch succeeded, and each unit has its own outcome.
BatchFailureWitness ==
  /\ Answered("translate")
  /\ Len(units) = 3
  /\ batch_size = 2
  /\ engineLog[1] = [batch |-> "raise", retry |-> "raise"]
  /\ engineLog[2] = [batch |-> "raise", retry |-> "ok"]
  /\ engineLog[3].batch = "ok"
  /\ translated_sentences =
       <<units[1], Translation(units[2]), Translation(units[3])>>

\* The batch tasks whose result the collector has taken.
CollectedTasks == {k \in 1..Len(future_state) : future_state[k] = "collected"}

\* C23: in concurrent mode every index a batch task returns lies in
\* [0, total_batches), the tasks return pairwise different indices, a slot of
\* the result array holds a value exactly when its own task has been
\* collected (so it is written once, by that task only), and every
\* collected result was stored, none discarded.
SlotsWrittenOnce ==
  (pipeline = "translate" /\ use_parallel_batches) =>
    /\ Len(batch_results) = total_batches
    /\ \A k \in 1..Len(batch_returns) :
         batch_returns[k] # None =>
           /\ 0 <= batch_returns[k][1].idx
           /\ batch_returns[k][1].idx < total_batches
           /\ \A j \in 1..Len(batch_returns) :
                (j # k /\ batch_returns[j] # None) =>
                  batch_returns[j][1].idx # batch_returns[k][1].idx
    /\ \A s \in 1..Len(batch_results) :
         /\ batch_results[s] # None <=>
              \E k \in CollectedTasks : batch_returns[k][1].idx = s - 1
         /\ batch_results[s] # None =>
              \E k \in CollectedTasks :
                batch_results[s] = Some(batch_returns[k][1].translations)
    /\ completed_count = Cardinality(CollectedTasks)
    /\ pc = "read" => completed_count = total_batches

\* C23 witness: a concurrent request of three batches whose results were
\* collected out of order, all three stored.
SlotsWrittenWitness ==
  /\ Answered("translate")
  /\ use_parallel_batches
  /\ total_batches = 3
  /\ reordered
  /\ completed_count = 3
  /\ \A s \in 1..3 : batch_results[s] # None

\* The batch tasks a worker is executing.
RunningTasks == {k \in 1..Len(future_state) : future_state[k] = "running"}

\* The translations of the first n batches, in batch order.
ReturnedUpTo(n) ==
  Flatten([k \in 1..n |-> batch_returns[k][1].translations])

\* C24: translate runs its batches concurrently exactly when the device is
\* cpu, there is more than one batch and the machine has at least four
\* processors, and then at most min(4, cpu_count // 2) batch tasks run at a
\* time; otherwise the batches the loop of lines 576-581 forms run one at a
\* time in ascending index order, each once.
ExecutionMode ==
  (pipeline = "translate" /\ pc \in {"parallel", "sequential"}) =>
    /\ pc = "parallel" <=>
         (model_cache[1].device = "cpu" /\ total_batches > 1 /\ cpu_count >= 4)
    /\ pc = "parallel" =>
         Cardinality(RunningTasks) <= Min({4, cpu_count \div 2})
    /\ pc = "sequential" =>
         /\ future_state = <<>>
         /\ \A k \in 1..Len(batch_returns) :
              /\ batch_returns[k] # None <=> k < next_batch
              /\ batch_returns[k] # None => batch_returns[k][1].idx = k - 1
         /\ translated_sentences = ReturnedUpTo(next_batch - 1)

\* C24 witness: on four processors two batch tasks run while a third waits
\* for a worker.
ExecutionModeWitness ==
  /\ pipeline = "translate"
  /\ pc = "parallel"
  /\ cpu_count = 4
  /\ Cardinality(RunningTasks) = 2
  /\ \E k \in 1..Len(future_state) : future_state[k] = "queued"

\* An engine behaviour for batch number k that repeats what the engine log
\* says the engine did for the units of that batch.
ReplayKind(kind) ==
  IF kind = "void" THEN "empty" ELSE IF kind = "raise" THEN "none" ELSE kind

BehaviourOf(k) ==
  [raises |-> engineLog[StartOf(k) + 1].batch = "raise",
   outs   |-> [i \in 1..Len(BatchOf(k)) |->
                 ReplayKind(engineLog[StartOf(k) + i].batch)],
   retry  |-> [i \in 1..Len(BatchOf(k)) |->
                 LET r == engineLog[StartOf(k) + i].retry
                 IN  IF r = "void" THEN "empty" ELSE r]]

\* What translate returns for the current units and batch size when the
\* engine repeats that behaviour (nothing when it raises at line 433).
AggregateReplay ==
  IF units = <<>> THEN Failure("No valid sentences found in input text")
  ELSE IF batch_size = 0 THEN NoResult
  ELSE TranslateResult(
         Flatten([k \in 1..Len(BatchStarts(Len(units), batch_size)) |->
                    BatchTranslations(BatchOf(k), BehaviourOf(k))]))

\* The last event translate_stream writes for the current units and batch
\* size when the engine repeats that behaviour (nothing when it raises at
\* line 658).
StreamReplay ==
  IF units = <<>> THEN ErrorEvent("No sentences found in input text")
  ELSE IF batch_size = 0 THEN NoResult
  ELSE StreamFinal(Len(units),
         Flatten([k \in 1..Len(BatchStarts(Len(units), batch_size)) |->
                    StreamTranslations(BatchOf(k), BehaviourOf(k))]))

\* C25: for the same text, batch size and engine behaviour, translate_stream
\* ends with a completion event exactly when translate returns success, and
\* then both carry the same translated text.
StreamAgreesWithAggregate ==
  /\ Answered("stream") =>
       LET completed == out # <<>> /\ out[Len(out)].type = "complete"
       IN  /\ completed <=> AggregateReplay.success
           /\ completed => out[Len(out)].translated = AggregateReplay.translated
  /\ Answered("translate") =>
       /\ result.success <=> StreamReplay.type = "complete"
       /\ result.success => result.translated = StreamReplay.translated

\* C25 witness: a concurrent translate request whose batches mixed true
\* translations with a raised batch returned the text translate_stream
\* completes with.
StreamAgreesWitness ==
  /\ Answered("translate")
  /\ use_parallel_batches
  /\ reordered
  /\ result.success
  /\ SomeBatchRaised
  /\ \E i \in 1..Len(units) : engineLog[i].batch = "ok"
  /\ StreamReplay.type = "complete"
  /\ StreamReplay.translated = result.translated

\* The engine was called for no unit of the current request.
NoEngineCall == \A i \in 1..Len(engineLog) : engineLog[i] = NotCalled

\* The current line is a request that supplies a batch_size of zero or less.
NonPositiveBatchSize ==
  /\ req.kind = "request"
  /\ req.batch_size # None
  /\ req.batch_size[1] <= 0

\* C26: a request that supplies a batch_size of zero or less makes no
\* engine call and, once handled, has been answered with exactly one
\* response, a failure, in aggregate and in streaming mode; the server then
\* goes on reading.
NonPositiveBatchSizeRefused ==
  NonPositiveBatchSize =>
    /\ NoEngineCall
    /\ pc = "read" =>
         /\ Len(out) = 1
         /\ ~out[1].success
         /\ exit_code = -1

\* C27: the target-language id of a request is resolved before any batch
\* is dispatched and stays what it was resolved to: vocab[tgt_lang] when the
\* vocabulary has tgt_lang, else vocab["eng_Latn"] when it has that tag,
\* else the fixed id; every generate call of the request, batched or retry,
\* is forced to that id; and a request with an unknown tgt_lang is served
\* like any other.
TargetResolvedOnce ==
  /\ (pipeline \in {"translate", "stream"} /\ units # <<>>) <=> tgt_lang_id # None
  /\ tgt_lang_id # None =>
       /\ tgt_lang_id[1] =
            IF req.tgt_lang \in DOMAIN vocab THEN vocab[req.tgt_lang]
            ELSE IF "eng_Latn" \in DOMAIN vocab THEN vocab["eng_Latn"]
            ELSE FallbackLangId
       /\ forced_bos_token_ids \subseteq {tgt_lang_id[1]}
  /\ ~NoEngineCall => forced_bos_token_ids # {}
  /\ tgt_lang_id = None => forced_bos_token_ids = {}
  /\ (pc = "read" /\ units # <<>> /\ batch_size >= 1
        /\ req.tgt_lang \notin DOMAIN vocab) =>
       /\ pipeline = "translate" => out = <<result>> /\ result.success
       /\ pipeline = "stream" => out[Len(out)].type = "complete"

\* C27 witness: a request for a tag the vocabulary lacks was translated
\* with the id of "eng_Latn", in a batched call and, after a batch raised,
\* in retries.
TargetResolvedWitness ==
  /\ Answered("translate")
  /\ req.tgt_lang \notin DOMAIN vocab
  /\ "eng_Latn" \in DOMAIN vocab
  /\ forced_bos_token_ids = {vocab["eng_Latn"]}
  /\ SomeBatchRaised
  /\ \E i \in 1..Len(units) : engineLog[i].batch = "ok"
  /\ result.success

\* The characters at which str.splitlines ends a line.
LineBreaks == {"\n", "\r"}

\* C28: for a text with a line break and a line that is not blank,
\* split_into_units returns the trimmed non-blank lines in order, one unit
\* per line; only a text without line break, or with blank lines only, is
\* split into sentences.
LinesAreUnits ==
  nphase = "split" =>
    LET lines == NonEmpty(StripAll(SplitLines(ntext)))
    IN  IF (\E i \in 1..Len(ntext) : ntext[i] \in LineBreaks) /\ lines # <<>>
        THEN nunits = lines
        ELSE nunits \in {SentencePath(ntext), <<ntext>>}

\* C29: translate_stream runs its batches one after another on every
\* device: at each moment of a streaming request the events written are the
\* chunks of the units of the batches done so far, with indices 0, 1, 2, ...
\* in that order, no batch task exists, and a completion event is written
\* after the chunks of all units, as the last event of the request.
ChunksAscending ==
  pipeline = "stream" =>
    /\ future_state = <<>> /\ ~use_parallel_batches
    /\ \A j \in 1..Len(out) :
         /\ out[j].type = "chunk" =>
              /\ out[j].index = j - 1
              /\ \A i \in 1..(j - 1) : out[i].type = "chunk"
         /\ out[j].type = "complete" =>
              /\ j = Len(out)
              /\ j = Len(units) + 1
              /\ pc = "read"
    /\ pc = "streaming" =>
         /\ Len(out) = Len(translated_sentences)
         /\ \A j \in 1..Len(out) : out[j].type = "chunk"
         /\ next_batch <= Len(batch_returns) => Len(out) = StartOf(next_batch)

\* C29 witness: on a cpu with four processors or more, where translate
\* would run its batches concurrently, translate_stream has written the two
\* chunks of its first batch, 0 then 1, and has a batch left to run.
ChunksAscendingWitness ==
  /\ pipeline = "stream"
  /\ pc = "streaming"
  /\ model_cache[1].device = "cpu"
  /\ cpu_count >= 4
  /\ next_batch = 2
  /\ next_batch <= Len(batch_returns)
  /\ Len(out) = 2
  /\ out[1].index = 0
  /\ out[2].index = 1

\* C30: in concurrent mode translate has a result, and main a response,
\* only once every submitted batch task has completed and been collected;
\* no task is queued or running outside the concurrent phase of a request,
\* so the pool does not outlive the request it was created for.
PoolEndsWithRequest ==
  /\ pc = "parallel" =>
       /\ out = <<>>
       /\ result = NoResult
       /\ Len(future_state) = total_batches
  /\ pc # "parallel" =>
       \A k \in 1..Len(future_state) : future_state[k] = "collected"
  /\ pc \in {"translate_call", "stream_call"} => future_state = <<>>
  /\ (Answered("translate") /\ use_parallel_batches) =>
       /\ Len(future_state) = total_batches
       /\ \A k \in 1..Len(future_state) : batch_returns[k] # None
       /\ out = <<result>>

\* C30 witness: the second request of a run was served concurrently and
\* answered with all its batch tasks collected.
PoolEndsWitness ==
  /\ Answered("translate")
  /\ use_parallel_batches
  /\ nread = 2
  /\ Len(future_state) >= 2
  /\ PoolShutDown(future_state)
  /\ out = <<result>>

\* Handling the current line raised an exception other than a JSON parse
\* error: req.get on JSON that is not an object, int() on a bad batch_size,
\* the division of line 433 or range() of line 658 with a batch size of 0.
RaisedInRequest ==
  \/ req.kind \in {"nonobject", "badsize"}
  \/ pipeline \in {"translate", "stream"} /\ units # <<>> /\ batch_size = 0

\* C31: a request whose handling raised is answered with exactly one
\* "Translation failed" failure and the server has not ended but is ready
\* to read the next line; a blank line gets no answer; and the process ends
\* only at the end of its input (or before its loop, when the load failed).
ExceptionAnswered ==
  /\ RaisedInRequest =>
       /\ pc = "read"
       /\ out = <<Failure("Translation failed")>>
       /\ out[1].keys = {"success", "error"}
       /\ exit_code = -1
       /\ nread < MaxRequests => ENABLED ReadLine
  /\ req.kind = "blank" =>
       /\ pc = "read"
       /\ out = <<>>
       /\ exit_code = -1
  /\ pc = "exited" =>
       \/ req.kind = "eof" /\ exit_code = 0
       \/ req = NoLine /\ model_cache = None /\ exit_code = 1

\* C31 witness: translate raised on a batch size of 0 for the first line,
\* which was answered with the one failure, and the server can read on.
ExceptionAnsweredWitness ==
  /\ pipeline = "translate"
  /\ units # <<>>
  /\ batch_size = 0
  /\ nread = 1
  /\ pc = "read"
  /\ out = <<Failure("Translation failed")>>
  /\ ENABLED ReadLine

\* C32: the batch size of a request that supplies one is that size; of a
\* request that supplies none it is, on cpu, half the processor count kept
\* within 6..10 (6 below, 10 above), and 12 on any other device; translate
\* and translate_stream alike.
BatchSizeDerived ==
  (pipeline \in {"translate", "stream"}) =>
    IF req.batch_size # None THEN batch_size = req.batch_size[1]
    ELSE IF model_cache[1].device = "cpu"
         THEN /\ batch_size \in 6..10
              /\ cpu_count \div 2 \in 6..10 => batch_size = cpu_count \div 2
              /\ cpu_count \div 2 < 6 => batch_size = 6
              /\ cpu_count \div 2 > 10 => batch_size = 10
         ELSE batch_size = 12

\* C32 witness: on a cpu with 16 processors translate_stream, given no
\* batch size, works with batches of 8.
BatchSizeWitness ==
  /\ pipeline = "stream"
  /\ pc = "streaming"
  /\ req.batch_size = None
  /\ model_cache[1].device = "cpu"
  /\ cpu_count = 16
  /\ batch_size = 8

\* The maximum length of the tier of e estimated tokens.
TierOf(e) == IF e < 50 THEN 256 ELSE IF e < 200 THEN 512 ELSE 1024

\* The longest unit of the batch the engine is called for.
LongestUnit == Max({clens[i] : i \in 1..Len(clens)})

\* C33: the batched engine call encodes and generates with the maximum
\* length of the tier of its longest unit (a quarter of its length, rounded
\* down: 256 below 50, 512 below 200, else 1024), and the retry of a unit
\* with the maximum length of the tier of that unit.
MaxLengthByLongestUnit ==
  /\ cphase \in {"batched", "retried"} =>
       /\ ccalls[1].max_length = TierOf(LongestUnit \div 4)
       /\ ccalls[1].encode_max_length = ccalls[1].max_length
  /\ cphase = "retried" =>
       /\ Len(ccalls) = Len(clens) + 1
       /\ \A i \in 1..Len(clens) :
            /\ ccalls[i + 1].max_length = TierOf(clens[i] \div 4)
            /\ ccalls[i + 1].encode_max_length = ccalls[i + 1].max_length

\* C33 witness: a batch of a short, a long and a medium unit was called
\* with 1024 and its units retried with 256, 1024 and 512.
MaxLengthWitness ==
  /\ cphase = "retried"
  /\ clens = <<199, 800, 200>>
  /\ [i \in 1..4 |-> ccalls[i].max_length] = <<1024, 256, 1024, 512>>

\* C34: every generate call, batched or retry, in translate or in
\* translate_stream, runs without sampling and with the device's decode
\* parameters: on cpu beam width 1, repetition penalty 1.05, length penalty
\* 0.7; on any other device 2, 1.1 and 0.8.
DecodeParamsByDevice ==
  \A i \in 1..Len(ccalls) :
    /\ ccalls[i].do_sample # "True"
    /\ cdevice = "cpu" =>
         /\ ccalls[i].num_beams = 1
         /\ ccalls[i].repetition_penalty = "1.05"
         /\ ccalls[i].length_penalty = "0.7"
    /\ cdevice # "cpu" =>
         /\ ccalls[i].num_beams = 2
         /\ ccalls[i].repetition_penalty = "1.1"
         /\ ccalls[i].length_penalty = "0.8"

\* The placeholder keys of the math spans strip_markdown extracted.
PlaceholderKeys == {nstate.phs[p].key : p \in 1..Len(nstate.phs)}

\* C35: within one strip_markdown call the spans extracted, over the four
\* passes, are numbered 0, 1, 2, ... in the order of their extraction, so no
\* two of them have the same placeholder key and the placeholder map has
\* one entry for each.
PlaceholderKeysUnique ==
  nphase = "extracted" =>
    /\ Len(nstate.phs) = nstate.counter
    /\ \A p \in 1..Len(nstate.phs) :
         nstate.phs[p].key \in {Placeholder(PrefixDisplay, p - 1),
                                Placeholder(PrefixInline, p - 1)}
    /\ \A p, q \in 1..Len(nstate.phs) :
         p # q => nstate.phs[p].key # nstate.phs[q].key
    /\ Cardinality(PlaceholderKeys) = nstate.counter

\* C35 witness: a text with an inline span, a \[ \] span and a $$ $$ span
\* had them extracted by three different passes under the keys
\* __LATEX_DISPLAY_0__, __LATEX_DISPLAY_1__ and __LATEX_INLINE_2__.
PlaceholderKeysWitness ==
  /\ nphase = "extracted"
  /\ ntext = <<"$", "a", "$", "\\", "[", "a", "\\", "]", "$", "$", "a", "$", "$">>
  /\ nstate.counter = 3
  /\ [p \in 1..3 |-> nstate.phs[p].key] =
       <<Placeholder(PrefixDisplay, 0), Placeholder(PrefixDisplay, 1),
         Placeholder(PrefixInline, 2)>>

=============================================================================
